---- MODULE Spec2Model ----
(***************************************************************************)
(* Event-driven reliability layer of the financial intelligence platform:  *)
(* the error classifier, the backoff policy, the circuit breaker, the      *)
(* retry executor and the batch event processor of                         *)
(* backend/utils/errorHandling.js, with the per-record handler of          *)
(* backend/functions/budgetCalculator.js, the budget threshold engine      *)
(* (processTransactionEvent) of the same file and the notification         *)
(* dispatcher (processBudgetThresholdNotification) of the notification     *)
(* handler.                                                                *)
(*                                                                         *)
(* JavaScript strings that the code inspects (message.toLowerCase(),       *)
(* includes) are sequences of one-character strings, so that substring     *)
(* tests are computed, not assumed.  Strings that are only compared for    *)
(* equality (error codes, states, kinds) are TLA+ strings.                 *)
(***************************************************************************)
EXTENDS Integers, Sequences, FiniteSets, Bags, TLC

(***************************************************************************)
(* Program constants.                                                      *)
(***************************************************************************)
\* RETRY_CONFIG
MaxRetries == 3
BaseDelayMs == 1000
MaxDelayMs == 30000
BackoffMultiplier == 2
JitterEnabled == TRUE
\* CIRCUIT_BREAKER_CONFIG
FailureThreshold == 5
RecoveryTimeoutMs == 60000
\* "Require 2 successes to fully close"
RequiredHalfOpenSuccesses == 2
\* "Check if threshold is reached (80% and 100%)"
WarningThreshold == 80
ExceededThreshold == 100

(***************************************************************************)
(* Bounds of the model.                                                    *)
(***************************************************************************)
\* calls of processBudgetThresholdNotification
MaxDispatches == 2
\* longest batch handed to processEventWithRetry
MaxRecords == 3
\* execute calls that may be in flight on one breaker at a time
MaxCallers == 2
\* failureCount is not bounded by the code; recording stops here
MaxFailures == 7
\* transactions ever created in the store
MaxTransactions == 3
\* calls of processTransactionEvent
MaxPasses == 2
\* largest attempt number handed to calculateDelay
MaxAttempt == 7

(***************************************************************************)
(* JavaScript values.                                                      *)
(***************************************************************************)
Undefined == [t |-> "undefined"]
\* a string only compared for equality
Str(s) == [t |-> "string", v |-> s]
\* a string whose characters are read
Chars(s) == [t |-> "chars", v |-> s]
Num(n) == [t |-> "number", v |-> n]

\* truthiness, as used by  a || b  and  !a
Truthy(x) ==
  CASE x.t = "undefined" -> FALSE
    [] x.t = "string" -> x.v # ""
    [] x.t = "chars" -> Len(x.v) > 0
    [] x.t = "number" -> x.v # 0
    [] OTHER -> TRUE

\* a || b
Or(a, b) == IF Truthy(a) THEN a ELSE b

UpperCase == <<"A","B","C","D","E","F","G","H","I","J","K","L","M","N","O","P","Q","R","S","T","U","V","W","X","Y","Z">>
LowerCase == <<"a","b","c","d","e","f","g","h","i","j","k","l","m","n","o","p","q","r","s","t","u","v","w","x","y","z">>

\* the lower-case letter of each upper-case letter
LowerOf ==
  [c \in {UpperCase[i] : i \in 1..Len(UpperCase)} |->
     LowerCase[CHOOSE i \in 1..Len(UpperCase) : UpperCase[i] = c]]

ToLowerChar(c) == IF c \in DOMAIN LowerOf THEN LowerOf[c] ELSE c

\* String.prototype.toLowerCase
ToLowerCase(s) == [i \in 1..Len(s) |-> ToLowerChar(s[i])]

\* String.prototype.includes
Includes(s, sub) ==
  \E t \in {s} :
    \E i \in 0..(Len(t) - Len(sub)) : SubSeq(t, i + 1, i + Len(sub)) = sub

Digits == <<"0","1","2","3","4","5","6","7","8","9">>

RECURSIVE NumToString(_)
\* template-literal rendering of a non-negative integer
NumToString(n) ==
  IF n < 10 THEN <<Digits[n + 1]>>
  ELSE NumToString(n \div 10) \o <<Digits[(n % 10) + 1]>>

(***************************************************************************)
(* Errors.  name, errorType and isRetryable are what the two error classes *)
(* set; code and statusCode are what a store or HTTP client sets.          *)
(***************************************************************************)
ERROR_TYPES ==
  {"TRANSIENT", "PERMANENT", "THROTTLING", "VALIDATION", "TIMEOUT", "NETWORK"}

\* new NonRetryableError(message, errorType = PERMANENT)
NonRetryableError(message, errorType) ==
  [name |-> "NonRetryableError", message |-> message, code |-> Undefined,
   statusCode |-> Undefined, errorType |-> errorType, isRetryable |-> FALSE]

\* an error raised by a dependency (store, bus, HTTP client)
DependencyError(message, code, statusCode) ==
  [name |-> "Error", message |-> message, code |-> code,
   statusCode |-> statusCode, errorType |-> "unknown", isRetryable |-> FALSE]

\* the placeholder of  let lastError;
NoError == [name |-> "none"]

IsStatus(x, lo, hi) == x.t = "number" /\ x.v >= lo /\ x.v < hi

\* classifyError(error)
ClassifyError(error) ==
  LET errorMessage == ToLowerCase(error.message)
      errorCode == Or(error.code, error.statusCode)
  IN  IF error.code = Str("ProvisionedThroughputExceededException")
         \/ error.code = Str("ThrottlingException")
      THEN "THROTTLING"
      ELSE IF error.code = Str("ValidationException")
              \/ error.code = Str("ConditionalCheckFailedException")
      THEN "VALIDATION"
      ELSE IF Includes(errorMessage, <<"t","i","m","e","o","u","t">>)
              \/ Includes(errorMessage, <<"e","t","i","m","e","d","o","u","t">>)
              \/ error.code = Str("TimeoutError")
      THEN "TIMEOUT"
      ELSE IF Includes(errorMessage, <<"n","e","t","w","o","r","k">>)
              \/ Includes(errorMessage, <<"c","o","n","n","e","c","t","i","o","n">>)
              \/ Includes(errorMessage, <<"e","c","o","n","n","r","e","s","e","t">>)
              \/ Includes(errorMessage, <<"e","n","o","t","f","o","u","n","d">>)
      THEN "NETWORK"
      ELSE IF IsStatus(errorCode, 500, 600) THEN "TRANSIENT"
      ELSE IF IsStatus(errorCode, 400, 500) /\ errorCode.v # 429 THEN "PERMANENT"
      ELSE IF errorCode.t = "number" /\ errorCode.v = 429 THEN "THROTTLING"
      ELSE "TRANSIENT"

\* shouldRetry without its first test: every kind is retried within the limit
ShouldRetry_AlwaysWithinLimit(errorType, attempt) == attempt < MaxRetries

\* shouldRetry(error, errorType, attempt, config); error is not read
ShouldRetry(errorType, attempt) ==
  IF errorType = "PERMANENT" \/ errorType = "VALIDATION" THEN FALSE
  ELSE IF errorType \in {"TRANSIENT", "NETWORK", "TIMEOUT"} THEN attempt < MaxRetries
  ELSE IF errorType = "THROTTLING" THEN attempt < MaxRetries
  ELSE FALSE

RECURSIVE Pow(_, _)
\* Math.pow on non-negative integer exponents
Pow(b, e) == IF e = 0 THEN 1 ELSE b * Pow(b, e - 1)

Min(a, b) == IF a <= b THEN a ELSE b
Max(a, b) == IF a >= b THEN a ELSE b

\* values of Math.random(), in quarters: 0, 0.5
RandomQuarters == {0, 2}

\* calculateDelay(attempt, config), with Math.random() = q/4:
\* jitter = delay * 0.25 * (q/4 * 2 - 1) = delay * (q - 2) / 8
CalculateDelay(attempt, q) ==
  LET delay == Min(BaseDelayMs * Pow(BackoffMultiplier, attempt - 1), MaxDelayMs)
      jittered == IF JitterEnabled THEN delay + (delay * (q - 2)) \div 8 ELSE delay
  IN  Max(jittered, 0)

\* RETRY_CONFIG
RETRY_CONFIG ==
  [maxRetries |-> MaxRetries, baseDelayMs |-> BaseDelayMs,
   maxDelayMs |-> MaxDelayMs, backoffMultiplier |-> BackoffMultiplier,
   jitterEnabled |-> JitterEnabled]

\* calculateDelay without Math.min: the delay is not capped
CalculateDelayWith_NoCap(attempt, config, q) ==
  LET delay == config.baseDelayMs * Pow(config.backoffMultiplier, attempt - 1)
      jittered == IF config.jitterEnabled
                  THEN delay + (delay * (q - 2)) \div 8 ELSE delay
  IN  Max(jittered, 0)

\* calculateDelay(attempt, config) for any config, with Math.random() = q/4
CalculateDelayWith(attempt, config, q) ==
  LET delay == Min(config.baseDelayMs
                     * Pow(config.backoffMultiplier, attempt - 1),
                   config.maxDelayMs)
      jittered == IF config.jitterEnabled
                  THEN delay + (delay * (q - 2)) \div 8 ELSE delay
  IN  Max(jittered, 0)

(***************************************************************************)
(* classifyError on whatever a rejected operation hands to the catch block *)
(* of retryWithBackoff: undefined, null, a primitive, or an object whose   *)
(* message, code and statusCode are any values.                            *)
(***************************************************************************)
Null == [t |-> "null"]

\* an object that was thrown
Thrown(message, code, statusCode) ==
  [t |-> "object", message |-> message, code |-> code,
   statusCode |-> statusCode]

\* how a call ends: it returns a value or throws
Returns(x) == [t |-> "return", v |-> x]
Raises(name) == [t |-> "throw", v |-> name]

\* error.message?.toLowerCase() || ''  : reading a property of undefined or
\* null throws; a primitive has no message; ?. skips an undefined or null
\* message; any other message that is not a string has no toLowerCase
ErrorMessage(error) ==
  IF error.t \in {"undefined", "null"} THEN Raises("TypeError")
  ELSE IF error.t # "object" THEN Returns(<<>>)
  ELSE IF error.message.t \in {"undefined", "null"} THEN Returns(<<>>)
  ELSE IF error.message.t = "chars" THEN Returns(ToLowerCase(error.message.v))
  ELSE Raises("TypeError")

\* error.code, error.statusCode
PropertyOf(error, name) ==
  IF error.t = "object" THEN error[name] ELSE Undefined

\* classifyError(error) for any thrown value
ClassifyThrown(error) ==
  LET errorMessage == ErrorMessage(error)
  IN  IF errorMessage.t = "throw" THEN errorMessage
      ELSE Returns(ClassifyError(
             DependencyError(errorMessage.v, PropertyOf(error, "code"),
                             PropertyOf(error, "statusCode"))))

(***************************************************************************)
(* Circuit breaker.  The code reads the clock only in                      *)
(* Date.now() - this.lastFailureTime, so the breaker keeps that            *)
(* difference, lastFailureAge: 0 when recordFailure stores Date.now(),     *)
(* growing as time passes, saturating at recoveryTimeoutMs (beyond which   *)
(* the comparison of line 65 no longer changes).  The initial null reads   *)
(* as the epoch, an age beyond any timeout.                                *)
(***************************************************************************)
\* new CircuitBreaker()
NewCircuitBreaker ==
  [state |-> "CLOSED", failureCount |-> 0,
   lastFailureAge |-> RecoveryTimeoutMs, successCount |-> 0]

\* Date.now() - this.lastFailureTime >= this.config.recoveryTimeoutMs
RecoveryElapsed(b) == b.lastFailureAge >= RecoveryTimeoutMs

\* execute throws before calling the operation
Rejects(b) == b.state = "OPEN" /\ ~RecoveryElapsed(b)

\* the entry test forgetting  this.successCount = 0
Admit_KeepsSuccessCount(b) ==
  IF b.state = "OPEN" THEN [b EXCEPT !.state = "HALF_OPEN"] ELSE b

\* the breaker after the entry test of execute, when the call is let in
Admit(b) ==
  IF b.state = "OPEN"
  THEN [b EXCEPT !.state = "HALF_OPEN", !.successCount = 0]
  ELSE b

\* a refusal recorded like a failure: it restarts the recovery timeout
Refuse_RestartsTimeout(b) == [b EXCEPT !.lastFailureAge = 0]

\* the breaker after the entry test of execute, when the call is refused
Refuse(b) == b

\* execute closing the breaker at the first success in HALF_OPEN
OnSuccess_ClosesAtOnce(b) ==
  IF b.state = "HALF_OPEN"
  THEN [b EXCEPT !.successCount = @ + 1, !.state = "CLOSED", !.failureCount = 0]
  ELSE [b EXCEPT !.failureCount = 0]

\* execute counting the successes in HALF_OPEN without ever closing
OnSuccess_NeverCloses(b) ==
  IF b.state = "HALF_OPEN"
  THEN [b EXCEPT !.successCount = Min(@ + 1, RequiredHalfOpenSuccesses)]
  ELSE [b EXCEPT !.failureCount = 0]

\* execute, after the operation has returned
OnSuccess(b) ==
  IF b.state = "HALF_OPEN"
  THEN LET n == b.successCount + 1
       IN  IF n >= RequiredHalfOpenSuccesses
           THEN [b EXCEPT !.successCount = n, !.state = "CLOSED", !.failureCount = 0]
           ELSE [b EXCEPT !.successCount = n]
  ELSE [b EXCEPT !.failureCount = 0]

\* recordFailure with > in place of >=
RecordFailure_OpensLate(b) ==
  LET n == b.failureCount + 1
      c == [b EXCEPT !.failureCount = n, !.lastFailureAge = 0]
  IN  IF n > FailureThreshold THEN [c EXCEPT !.state = "OPEN"] ELSE c

\* recordFailure()
RecordFailure(b) ==
  LET n == b.failureCount + 1
      c == [b EXCEPT !.failureCount = n, !.lastFailureAge = 0]
  IN  IF n >= FailureThreshold THEN [c EXCEPT !.state = "OPEN"] ELSE c

\* the breaker ms milliseconds later
Later(b, ms) == [b EXCEPT !.lastFailureAge = Min(@ + ms, RecoveryTimeoutMs)]

\* the error of line 70
CircuitOpenError ==
  NonRetryableError(<<"C","i","r","c","u","i","t"," ","b","r","e","a","k","e","r"," ","i","s"," ","O","P","E","N"," ","-"," ","o","p","e","r","a","t","i","o","n"," ","n","o","t"," ","a","l","l","o","w","e","d">>, "PERMANENT")

(***************************************************************************)
(* Records and per-record handlers.                                        *)
(***************************************************************************)
OK == [ok |-> TRUE, result |-> Undefined]
Skipped(reason) == [ok |-> TRUE, result |-> Str(reason)]
Throws(error) == [ok |-> FALSE, error |-> error]

\* the processor passed by exports.handler of budgetCalculator.js;
\* processTransactionEvent catches every store and bus failure
BudgetCalculatorProcessor(record) ==
  LET eventDetail == record.detail
      eventType == record.detailType
  IN  IF ~(eventType.t = "chars" /\ Includes(eventType.v, <<"T","r","a","n","s","a","c","t","i","o","n">>))
      THEN Skipped("non-transaction event")
      ELSE IF ~Truthy(eventDetail.userId) \/ ~Truthy(eventDetail.category)
      THEN Throws(NonRetryableError(
             <<"M","i","s","s","i","n","g"," ","r","e","q","u","i","r","e","d"," ","f","i","e","l","d","s",":"," ","u","s","e","r","I","d"," ","o","r"," ","c","a","t","e","g","o","r","y"," ","i","n"," ","e","v","e","n","t"," ">> \o eventType.v,
             "PERMANENT"))
      ELSE OK

\* a processor whose outcome is the dependency's: the n-th invocation for a
\* record ends as the n-th entry of the record's script, the last entry
\* standing for every later invocation
GenericProcessor(record, n) == record.script[Min(n, Len(record.script))]

\* processor(record), n-th invocation
Processor(kind, record, n) ==
  IF kind = "budgetCalculator" THEN BudgetCalculatorProcessor(record)
  ELSE GenericProcessor(record, n)

ThrottlingException ==
  DependencyError(<<"R","a","t","e"," ","e","x","c","e","e","d","e","d">>, Str("ThrottlingException"), Num(400))
ConditionalCheckFailed ==
  DependencyError(<<"T","h","e"," ","c","o","n","d","i","t","i","o","n","a","l"," ","r","e","q","u","e","s","t"," ","f","a","i","l","e","d">>,
                  Str("ConditionalCheckFailedException"), Num(400))
ServerError == DependencyError(<<"I","n","t","e","r","n","a","l"," ","s","e","r","v","e","r"," ","e","r","r","o","r">>, Undefined, Num(500))
NotFound == DependencyError(<<"N","o","t"," ","F","o","u","n","d">>, Undefined, Num(404))
ConnectTimeout == DependencyError(<<"C","o","n","n","e","c","t","i","o","n"," ","t","i","m","e","o","u","t">>, Undefined, Undefined)
ConnReset == DependencyError(<<"r","e","a","d"," ","E","C","O","N","N","R","E","S","E","T">>, Undefined, Undefined)

\* an EventBridge record: 'detail-type' and detail
BudgetRecord(detailType, userId, category) ==
  [detailType |-> detailType,
   detail |-> [userId |-> userId, category |-> category,
               type |-> Str("expense")],
   script |-> <<OK>>]

\* a record whose Detail has the type given, or none: the Details of
\* createTransactionUpdatedEvent and createTransactionDeletedEvent have
\* userId but neither category nor type, which are inside beforeState,
\* afterState and deletedTransaction
TransactionRecord(detailType, userId, category, type) ==
  [detailType |-> detailType,
   detail |-> [userId |-> userId, category |-> category, type |-> type],
   script |-> <<OK>>]

\* a record of a processor that reads nothing of it
GenericRecord(script) ==
  [detailType |-> Undefined,
   detail |-> [userId |-> Undefined, category |-> Undefined,
               type |-> Undefined],
   script |-> script]

\* the records a batch is drawn from, per processor
RecordSamples(kind) ==
  IF kind = "budgetCalculator"
  THEN { BudgetRecord(Chars(<<"T","r","a","n","s","a","c","t","i","o","n"," ","C","r","e","a","t","e","d">>), Str("u1"), Str("food")),
         TransactionRecord(Chars(<<"T","r","a","n","s","a","c","t","i","o","n"," ","U","p","d","a","t","e","d">>), Str("u1"), Undefined, Undefined),
         TransactionRecord(Chars(<<"T","r","a","n","s","a","c","t","i","o","n"," ","D","e","l","e","t","e","d">>), Str("u1"), Undefined, Undefined),
         TransactionRecord(Chars(<<"T","r","a","n","s","a","c","t","i","o","n"," ","C","r","e","a","t","e","d">>), Undefined, Str("food"), Str("income")),
         BudgetRecord(Chars(<<"B","u","d","g","e","t"," ","C","r","e","a","t","e","d">>), Str("u1"), Str("food")) }
  ELSE { GenericRecord(<<OK>>),
         GenericRecord(<<Throws(ServerError)>>),
         GenericRecord(<<Throws(ThrottlingException)>>),
         GenericRecord(<<Throws(ConditionalCheckFailed)>>),
         GenericRecord(<<Throws(NotFound)>>),
         GenericRecord(<<Throws(ConnectTimeout), OK>>),
         GenericRecord(<<Throws(ConnReset), Throws(ConditionalCheckFailed)>>) }

Processors == {"budgetCalculator", "generic"}

(***************************************************************************)
(* State.                                                                  *)
(***************************************************************************)
VARIABLES
  cb,           \* circuitBreakers.dynamodb
  ev,           \* the last step taken (with the errorType the catch block
                \* computed), for stating properties of steps
  processor,    \* which processor processEventWithRetry was given
  records,      \* event.Records, each record with its messageId
  idx,          \* position of the for loop of processEventWithRetry
  pc,           \* where the record in hand stands
  attempt,      \* the loop variable of retryWithBackoff
  lastError,    \* the local of retryWithBackoff
  results,      \* the local of processEventWithRetry
  errors,       \* the local of processEventWithRetry
  deadLetters,  \* what handleDeadLetterQueue has logged
  attempts,     \* per record: calls of operation() by retryWithBackoff
  invocations,  \* per record: calls of processor(record)
  waits,        \* per record: calls of sleep
  callers,      \* direct callers of execute: "idle" or "running"
  failStreak,   \* failed operations since the last successful one
  okStreak,     \* successful operations since the last failed one
  trialCalls,   \* operations execute has let in since the breaker last
                \* became HALF_OPEN; 0 in the other states
  Budgets,      \* the items of table Budgets, in query order
  Transactions, \* the items of table Transactions, a bag
  eventDetail,  \* the event processTransactionEvent was called with
  bpc,          \* where processTransactionEvent stands
  pass,         \* calls of processTransactionEvent so far; also the clock
  budgets,      \* the local of processTransactionEvent
  budgetIdx,    \* position of its for loop
  currentSpending,  \* the local of the loop body
  trace,        \* what the call in hand has done so far
  prev,         \* the budgets the call before it built an event for, if
                \* the store has not changed since that call began
  Users,        \* the item of table Users of the notified user
  thresholdEvent,   \* the event processBudgetThresholdNotification was
                    \* called with
  npc,          \* where processBudgetThresholdNotification stands
  userProfile,  \* its local
  console,      \* the notifications sendNotification has printed
  auditBus,     \* the Notification Sent events put on the bus
  dispatched,   \* calls of processBudgetThresholdNotification so far
  ntrace,       \* what the call in hand found and has done so far
  call,         \* a single call of classifyError, calculateDelay,
                \* retryWithBackoff or processEventWithRetry under study:
                \* its arguments and how it stands or ended
  inflight      \* invocations of the budget calculator running at the
                \* same time: the locals of each

breakerVars == <<callers, failStreak, okStreak, trialCalls>>
batchVars ==
  <<processor, records, idx, pc, attempt, lastError, results, errors,
    deadLetters, attempts, invocations, waits>>
engineVars ==
  <<Budgets, Transactions, eventDetail, bpc, pass, budgets, budgetIdx,
    currentSpending, trace, prev>>
dispatchVars ==
  <<Users, thresholdEvent, npc, userProfile, console, auditBus, dispatched,
    ntrace>>
handlerVars == <<engineVars, dispatchVars, call, inflight>>
vars == <<cb, ev, batchVars, breakerVars, handlerVars>>

\* record.messageId || 'unknown'
RecordId(record) == Or(record.messageId, Str("unknown"))

\* all batches of 1..MaxRecords sample records, numbered by the event source
Batches(kind) ==
  UNION { { [i \in 1..n |-> [messageId |-> Num(i),
                             detailType |-> f[i].detailType,
                             detail |-> f[i].detail,
                             script |-> f[i].script]] :
            f \in [1..n -> RecordSamples(kind)] } : n \in 1..MaxRecords }

Idle == [c \in 1..MaxCallers |-> "idle"]

\* what a call of processTransactionEvent has done, before its first step
NewTrace(txns) ==
  [queries |-> 0, failures |-> {}, seen |-> <<>>, emitted |-> <<>>,
   sent |-> <<>>, updates |-> <<>>, outcome |-> "pending", txns |-> txns]

\* the budgets a call built a threshold event for
EmittedFor(t) == {t.emitted[i].budgetId : i \in 1..Len(t.emitted)}

\* the budget engine before any event reaches it
EngineAtRest ==
  /\ Budgets = <<>>
  /\ Transactions = EmptyBag
  /\ eventDetail = Undefined
  /\ bpc = "idle"
  /\ pass = 0
  /\ budgets = <<>>
  /\ budgetIdx = 1
  /\ currentSpending = 0
  /\ trace = NewTrace(0)
  /\ prev = {}

\* what a call of processBudgetThresholdNotification has done, before its
\* first step: the sizes of the console output, the history and the bus
NewNotificationTrace(printed, stored, emitted) ==
  [console |-> printed, history |-> stored, audit |-> emitted,
   failures |-> {}, outcome |-> "pending"]

\* the notification handler before any event reaches it
DispatcherAtRest ==
  /\ Users = Undefined
  /\ thresholdEvent = Undefined
  /\ npc = "idle"
  /\ userProfile = Undefined
  /\ console = <<>>
  /\ auditBus = <<>>
  /\ dispatched = 0
  /\ ntrace = NewNotificationTrace(0, 0, 0)

\* no single function call and no concurrent invocation is under study
NothingElse ==
  /\ call = Undefined
  /\ inflight = <<>>

(***************************************************************************)
(* processEventWithRetry over one batch, on a freshly loaded module.       *)
(***************************************************************************)
Init ==
  /\ cb = NewCircuitBreaker
  /\ ev = [op |-> "init", flip |-> 0]
  /\ processor \in Processors
  /\ records \in Batches(processor)
  /\ idx = 1
  /\ pc = "attempt"
  /\ attempt = 0
  /\ lastError = NoError
  /\ results = <<>>
  /\ errors = <<>>
  /\ deadLetters = <<>>
  /\ attempts = [i \in 1..Len(records) |-> 0]
  /\ invocations = [i \in 1..Len(records) |-> 0]
  /\ waits = [i \in 1..Len(records) |-> 0]
  /\ callers = Idle
  /\ failStreak = 0
  /\ okStreak = 0
  /\ trialCalls = 0
  /\ EngineAtRest
  /\ DispatcherAtRest
  /\ NothingElse

\* the error retryWithBackoff throws after its loop
RetryExhaustedError(last) ==
  NonRetryableError(
    <<"O","p","e","r","a","t","i","o","n"," ","f","a","i","l","e","d"," ","a","f","t","e","r"," ">> \o NumToString(MaxRetries + 1)
      \o <<" ","a","t","t","e","m","p","t","s","."," ","L","a","s","t"," ","e","r","r","o","r",":"," ">> \o last.message,
    "PERMANENT")

\* the loop bound taken one short
GivesUp_OneShort(errorType, n) == n + 1 >= MaxRetries \/ ~ShouldRetry(errorType, n)

\* the break of the catch block of retryWithBackoff
GivesUp(errorType, n) == n = MaxRetries \/ ~ShouldRetry(errorType, n)

\* the entry handleDeadLetterQueue logs
DeadLetter(record, error) ==
  [messageId |-> RecordId(record),
   eventType |-> record.detailType,
   userId |-> Or(record.detail.userId, Str("unknown")),
   errorType |-> error.errorType]

\* errors.push({...})
ErrorEntry(record, error) ==
  [recordId |-> RecordId(record), status |-> "failed",
   error |-> error.message, errorType |-> error.errorType]

\* results.push({...})
ResultEntry(record, result) ==
  [recordId |-> RecordId(record), status |-> "success", result |-> result]

\* the for loop of processEventWithRetry moves on; after the last record it
\* returns the summary
NextRecord ==
  /\ idx' = idx + 1
  /\ attempt' = 0
  /\ lastError' = NoError
  /\ pc' = IF idx = Len(records) THEN "done" ELSE "attempt"

\* a terminal failure that leaves the for loop instead of moving on
AttemptFailed_AbortsBatch(error) ==
  IF GivesUp(ClassifyError(error), attempt)
  THEN /\ deadLetters' =
            Append(deadLetters, DeadLetter(records[idx], RetryExhaustedError(error)))
       /\ errors' = Append(errors, ErrorEntry(records[idx], RetryExhaustedError(error)))
       /\ idx' = Len(records) + 1
       /\ attempt' = 0
       /\ lastError' = NoError
       /\ pc' = "done"
  ELSE /\ attempt' = attempt + 1
       /\ lastError' = error
       /\ pc' = "attempt"
       /\ UNCHANGED <<idx, errors, deadLetters>>

\* a terminal failure that is dead-lettered but left out of errors
AttemptFailed_DropsRecord(error) ==
  IF GivesUp(ClassifyError(error), attempt)
  THEN /\ deadLetters' =
            Append(deadLetters, DeadLetter(records[idx], RetryExhaustedError(error)))
       /\ errors' = errors
       /\ NextRecord
  ELSE /\ attempt' = attempt + 1
       /\ lastError' = error
       /\ pc' = "attempt"
       /\ UNCHANGED <<idx, errors, deadLetters>>

\* a terminal failure that is recorded in errors without being dead-lettered
AttemptFailed_NoDeadLetter(error) ==
  IF GivesUp(ClassifyError(error), attempt)
  THEN /\ deadLetters' = deadLetters
       /\ errors' = Append(errors, ErrorEntry(records[idx], RetryExhaustedError(error)))
       /\ NextRecord
  ELSE /\ attempt' = attempt + 1
       /\ lastError' = error
       /\ pc' = "attempt"
       /\ UNCHANGED <<idx, errors, deadLetters>>

\* the catch block of retryWithBackoff for a failed attempt and, when the
\* loop ends there, the throw after it and the catch block of
\* processEventWithRetry
AttemptFailed(error) ==
  \E caught \in {error} :
    IF GivesUp(ClassifyError(caught), attempt)
    THEN /\ deadLetters' =
              Append(deadLetters, DeadLetter(records[idx], RetryExhaustedError(caught)))
         /\ errors' = Append(errors, ErrorEntry(records[idx], RetryExhaustedError(caught)))
         /\ NextRecord
    ELSE /\ attempt' = attempt + 1
         /\ lastError' = caught
         /\ pc' = "attempt"
         /\ UNCHANGED <<idx, errors, deadLetters>>

\* await sleep(delay) before a retry
Sleep(q) ==
  /\ pc = "attempt"
  /\ attempt > 0
  /\ cb' = Later(cb, CalculateDelay(attempt, q))
  /\ waits' = [waits EXCEPT ![idx] = @ + 1]
  /\ pc' = "call"
  /\ ev' = [op |-> "sleep", rec |-> idx, delay |-> CalculateDelay(attempt, q)]
  /\ UNCHANGED <<processor, records, idx, attempt, lastError, results, errors,
                 deadLetters, attempts, invocations, breakerVars, handlerVars>>

\* retryWithBackoff is about to call operation()
Ready == (pc = "attempt" /\ attempt = 0) \/ pc = "call"

\* operation(): execute refuses the call
CallRejected ==
  /\ Ready
  /\ Rejects(cb)
  /\ cb' = Refuse(cb)
  /\ attempts' = [attempts EXCEPT ![idx] = @ + 1]
  /\ AttemptFailed(CircuitOpenError)
  /\ ev' = [op |-> "reject", rec |-> idx, attempt |-> attempt,
            error |-> CircuitOpenError,
            errorType |-> ClassifyError(CircuitOpenError), final |-> (idx' # idx)]
  /\ UNCHANGED <<processor, records, results, invocations, waits, breakerVars,
                 handlerVars>>

\* operation(): execute lets the call in and calls processor(record)
CallAdmitted ==
  /\ Ready
  /\ ~Rejects(cb)
  /\ cb' = Admit(cb)
  /\ attempts' = [attempts EXCEPT ![idx] = @ + 1]
  /\ invocations' = [invocations EXCEPT ![idx] = @ + 1]
  /\ pc' = "running"
  /\ ev' = [op |-> "admit", rec |-> idx]
  /\ UNCHANGED <<processor, records, idx, attempt, lastError, results, errors,
                 deadLetters, waits, breakerVars, handlerVars>>

\* what the processor call in flight ends as
Outcome == Processor(processor, records[idx], invocations[idx])


\* processor(record) returns, and the loop attempts the operation again
ProcessorReturns_TriesAgain ==
  /\ pc = "running"
  /\ Outcome.ok
  /\ cb' = OnSuccess(cb)
  /\ results' = Append(results, ResultEntry(records[idx], Outcome.result))
  /\ IF attempt = MaxRetries
     THEN NextRecord
     ELSE /\ attempt' = attempt + 1
          /\ pc' = "attempt"
          /\ UNCHANGED <<idx, lastError>>
  /\ ev' = [op |-> "success", rec |-> idx]
  /\ UNCHANGED <<processor, records, errors, deadLetters, attempts, invocations,
                 waits, breakerVars, handlerVars>>

\* processor(record) returns: execute records the success, retryWithBackoff
\* returns, processEventWithRetry pushes the result
ProcessorReturns ==
  /\ pc = "running"
  /\ Outcome.ok
  /\ cb' = OnSuccess(cb)
  /\ results' = Append(results, ResultEntry(records[idx], Outcome.result))
  /\ NextRecord
  /\ ev' = [op |-> "success", rec |-> idx]
  /\ UNCHANGED <<processor, records, errors, deadLetters, attempts, invocations,
                 waits, breakerVars, handlerVars>>

\* processor(record) throws: execute records the failure and rethrows
ProcessorThrows ==
  /\ pc = "running"
  /\ ~Outcome.ok
  /\ cb' = RecordFailure(cb)
  /\ AttemptFailed(Outcome.error)
  /\ ev' = [op |-> "throw", rec |-> idx, attempt |-> attempt,
            error |-> Outcome.error,
            errorType |-> ClassifyError(Outcome.error), final |-> (idx' # idx)]
  /\ UNCHANGED <<processor, records, results, attempts, invocations, waits,
                 breakerVars, handlerVars>>

\* the summary processEventWithRetry returns
Summary ==
  [totalRecords |-> Len(records), successCount |-> Len(results),
   errorCount |-> Len(errors), results |-> results, errors |-> errors]

Next ==
  \/ \E q \in RandomQuarters : Sleep(q)
  \/ CallRejected
  \/ CallAdmitted
  \/ ProcessorReturns
  \/ ProcessorThrows

Spec == Init /\ [][Next]_vars

(***************************************************************************)
(* The breaker alone, called directly: execute calls arrive from           *)
(* MaxCallers callers, each operation ends when it ends, and time passes.  *)
(* execute runs without interruption up to  await operation()  and again   *)
(* from the operation's end to its own return.                             *)
(***************************************************************************)
BreakerInit ==
  /\ cb = NewCircuitBreaker
  /\ ev = [op |-> "init", flip |-> 0]
  /\ callers = Idle
  /\ failStreak = 0
  /\ okStreak = 0
  /\ trialCalls = 0
  /\ processor = "generic"
  /\ records = <<>>
  /\ idx = 1
  /\ pc = "done"
  /\ attempt = 0
  /\ lastError = NoError
  /\ results = <<>>
  /\ errors = <<>>
  /\ deadLetters = <<>>
  /\ attempts = <<>>
  /\ invocations = <<>>
  /\ waits = <<>>
  /\ EngineAtRest
  /\ DispatcherAtRest
  /\ NothingElse

\* trialCalls after a step that leaves the breaker as b; admitted tells
\* whether the step let an operation in.  The count stops one past the
\* number of successes that close the breaker.
TrialCalls(b, admitted) ==
  IF b.state # "HALF_OPEN" THEN 0
  ELSE IF ~admitted THEN trialCalls
  ELSE IF cb.state # "HALF_OPEN" THEN 1
  ELSE Min(trialCalls + 1, RequiredHalfOpenSuccesses + 1)

\* ev after a step of caller c; flip makes every step visible
Event(op, c) == [op |-> op, caller |-> c, flip |-> 1 - ev.flip]

\* execute(operation) refuses caller c
EnterRejected(c) ==
  /\ callers[c] = "idle"
  /\ Rejects(cb)
  /\ cb' = Refuse(cb)
  /\ ev' = [op |-> "reject", caller |-> c, flip |-> 1 - ev.flip,
            error |-> CircuitOpenError]
  /\ UNCHANGED <<batchVars, breakerVars, handlerVars>>

\* execute(operation) lets caller c in and calls the operation
EnterAdmitted(c) ==
  /\ callers[c] = "idle"
  /\ ~Rejects(cb)
  /\ cb' = Admit(cb)
  /\ callers' = [callers EXCEPT ![c] = "running"]
  /\ trialCalls' = TrialCalls(cb', TRUE)
  /\ ev' = Event("admit", c)
  /\ UNCHANGED <<batchVars, failStreak, okStreak, handlerVars>>

\* the operation of caller c returns
Succeed(c) ==
  /\ callers[c] = "running"
  /\ cb' = OnSuccess(cb)
  /\ callers' = [callers EXCEPT ![c] = "idle"]
  /\ failStreak' = 0
  /\ okStreak' = Min(okStreak + 1, RequiredHalfOpenSuccesses)
  /\ trialCalls' = TrialCalls(cb', FALSE)
  /\ ev' = Event("success", c)
  /\ UNCHANGED <<batchVars, handlerVars>>

\* the operation of caller c throws
Fail(c) ==
  /\ callers[c] = "running"
  /\ cb.failureCount < MaxFailures
  /\ cb' = RecordFailure(cb)
  /\ callers' = [callers EXCEPT ![c] = "idle"]
  /\ failStreak' = Min(failStreak + 1, FailureThreshold)
  /\ okStreak' = 0
  /\ trialCalls' = TrialCalls(cb', FALSE)
  /\ ev' = Event("failure", c)
  /\ UNCHANGED <<batchVars, handlerVars>>

\* how far the clock moves in one step
ElapseSteps == {RecoveryTimeoutMs \div 2}

\* time passes
Elapse(ms) ==
  /\ ~RecoveryElapsed(cb)
  /\ cb' = Later(cb, ms)
  /\ ev' = Event("elapse", 0)
  /\ UNCHANGED <<batchVars, breakerVars, handlerVars>>

BreakerStep(c) ==
  \/ EnterRejected(c)
  \/ EnterAdmitted(c)
  \/ Succeed(c)
  \/ Fail(c)

BreakerNext ==
  \/ \E c \in 1..MaxCallers : BreakerStep(c)
  \/ \E ms \in ElapseSteps : Elapse(ms)

\* several execute calls in flight
SpecBreaker == BreakerInit /\ [][BreakerNext]_vars

SequentialNext ==
  \/ BreakerStep(1)
  \/ \E ms \in ElapseSteps : Elapse(ms)

\* one execute call at a time
SpecBreakerSeq == BreakerInit /\ [][SequentialNext]_vars

(***************************************************************************)
(* The Budget Threshold Engine: processTransactionEvent of                 *)
(* budgetCalculator.js over the tables Budgets and Transactions and the    *)
(* event bus.  Events reach it one at a time; every call against the store *)
(* or the bus either succeeds or fails.  Amounts are whole currency units. *)
(***************************************************************************)
\* percentageUsed = (currentSpending / budgetLimit) * 100, kept exact
PercentageUsed(spending, budgetLimit) ==
  [num |-> spending * 100, den |-> budgetLimit]

\* percentageUsed >= n
AtLeast(p, n) == p.num >= n * p.den

\* Math.round(percentageUsed * 100) / 100, in hundredths of a percent
Round2(p) == (2 * 100 * p.num + p.den) \div (2 * p.den)

\* a threshold already reported by the call before is not reported again
ThresholdReached_OncePerBudget(p) ==
  AtLeast(p, WarningThreshold) /\ budgets[budgetIdx].budgetId \notin prev

\* the threshold test of the loop body
ThresholdReached(p) == AtLeast(p, WarningThreshold)

\* the two thresholds tested in the other order
ThresholdType_WarningFirst(p) ==
  IF AtLeast(p, WarningThreshold) THEN "warning" ELSE "exceeded"

\* thresholdType of emitBudgetThresholdEvent
ThresholdType(p) ==
  IF AtLeast(p, ExceededThreshold) THEN "exceeded" ELSE "warning"

\* only the budget's category decides
Matches_CategoryOnly(budget, category) ==
  /\ budget.category.t = "chars"
  /\ ToLowerCase(budget.category.v) = ToLowerCase(category.v)

\* the filter of getUserBudgetsForCategory
Matches(budget, category) ==
  LET nameMatch ==
        /\ budget.name.t = "chars"
        /\ Includes(ToLowerCase(budget.name.v), ToLowerCase(category.v))
      categoryMatch ==
        /\ budget.category.t = "chars"
        /\ ToLowerCase(budget.category.v) = ToLowerCase(category.v)
      isTestBudget ==
        /\ budget.name.t = "chars"
        /\ Includes(ToLowerCase(budget.name.v), <<"t","e","s","t">>)
  IN  nameMatch \/ categoryMatch \/ isTestBudget

\* the query of getUserBudgetsForCategory, filtered
MatchingBudgets(userId, category) ==
  SelectSeq(Budgets, LAMBDA b : b.userId = userId /\ Matches(b, category))

RECURSIVE Items(_)
\* the items of a table, as a query lists them
Items(table) ==
  IF table = EmptyBag THEN <<>>
  ELSE LET item == CHOOSE x \in BagToSet(table) : TRUE
       IN  <<item>> \o Items(table (-) SetToBag({item}))

\* the query of calculateCategorySpending
ExpenseItems(userId, category) ==
  SelectSeq(Items(Transactions),
            LAMBDA t : t.userId = userId /\ t.category = category
                       /\ t.type = "expense")

RECURSIVE Reduce(_, _, _)
\* items.reduce((total, transaction) => total + transaction.amount, total)
\* from position i on
Reduce(items, total, i) ==
  IF i > Len(items) THEN total
  ELSE Reduce(items, total + items[i].amount, i + 1)

\* the spend is kept up by adding the event's amount to the stored figure
CategorySpending_Incremental(userId, category) ==
  LET stored == budgets[budgetIdx].currentSpending
  IN  (IF stored.t = "number" THEN stored.v ELSE 0) + eventDetail.amount

\* what calculateCategorySpending returns when its query succeeds
CategorySpending(userId, category) ==
  Reduce(ExpenseItems(userId, category), 0, 1)

\* the Detail of createBudgetThresholdReachedEvent, as emitBudgetThresholdEvent
\* fills it
ThresholdEventDetail(userId, budgetId, category, spending, limit, p) ==
  [userId |-> userId, budgetId |-> budgetId, category |-> category,
   currentSpending |-> spending, limit |-> limit,
   percentageUsed |-> Round2(p), thresholdType |-> ThresholdType(p)]

\* the percentage stored cut off after two decimals
MetricsUpdate_Truncated(spending, p, now) ==
  [currentSpending |-> Num(spending),
   percentageUsed |-> Num((100 * p.num) \div p.den),
   lastCalculated |-> Num(now)]

\* ExpressionAttributeValues of updateBudgetMetrics
MetricsUpdate(spending, p, now) ==
  [currentSpending |-> Num(spending),
   percentageUsed |-> Num(Round2(p)),
   lastCalculated |-> Num(now)]

\* an update that leaves a larger stored spend in place
UpdatedBudgets_KeepsLarger(userId, budgetId, values) ==
  [i \in 1..Len(Budgets) |->
     IF /\ Budgets[i].userId = userId
        /\ Budgets[i].budgetId = budgetId
        /\ ~(/\ Budgets[i].currentSpending.t = "number"
             /\ Budgets[i].currentSpending.v > values.currentSpending.v)
     THEN [Budgets[i] EXCEPT !.currentSpending = values.currentSpending,
                             !.percentageUsed = values.percentageUsed,
                             !.lastCalculated = values.lastCalculated]
     ELSE Budgets[i]]

\* docClient.update on Budgets with key (userId, budgetId)
UpdatedBudgets(userId, budgetId, values) ==
  [i \in 1..Len(Budgets) |->
     IF Budgets[i].userId = userId /\ Budgets[i].budgetId = budgetId
     THEN [Budgets[i] EXCEPT !.currentSpending = values.currentSpending,
                             !.percentageUsed = values.percentageUsed,
                             !.lastCalculated = values.lastCalculated]
     ELSE Budgets[i]]

\* an item of table Budgets that no recomputation has touched yet
BudgetItem(budgetId, name, category, amount) ==
  [userId |-> Str("u1"), budgetId |-> Str(budgetId), name |-> name,
   category |-> category, amount |-> amount, currentSpending |-> Undefined,
   percentageUsed |-> Undefined, lastCalculated |-> Undefined]

\* an item of table Transactions
TransactionItem(userId, category, type, amount) ==
  [userId |-> Str(userId), category |-> category, type |-> type,
   amount |-> amount]

\* the Detail of a transaction event
TransactionDetail(category, type, amount) ==
  [userId |-> Str("u1"), category |-> category, type |-> type,
   amount |-> amount]

Food == Chars(<<"f","o","o","d">>)
Rent == Chars(<<"r","e","n","t">>)

\* the budgets a user may have
BudgetTables ==
  { <<BudgetItem("b1", Chars(<<"F","o","o","d">>), Undefined, 200)>>,
    <<BudgetItem("b1", Chars(<<"G","r","o","c","e","r","i","e","s">>), Chars(<<"F","O","O","D">>), 300),
      BudgetItem("b2", Chars(<<"T","e","s","t"," ","b","u","d","g","e","t">>), Rent, 100)>> }

\* the transactions that get created
TransactionSamples ==
  { TransactionItem("u1", Food, "expense", 140),
    TransactionItem("u1", Food, "expense", 30),
    TransactionItem("u1", Food, "expense", 50),
    TransactionItem("u1", Food, "income", 500) }

\* the events delivered to the engine
EventSamples ==
  { TransactionDetail(Food, "expense", 60),
    TransactionDetail(Rent, "expense", 85),
    TransactionDetail(Food, "income", 60),
    TransactionDetail(Rent, "income", 5000) }

\* the retry layer untouched and with no batch in hand
RetryLayerAtRest ==
  /\ cb = NewCircuitBreaker
  /\ ev = [op |-> "init", flip |-> 0]
  /\ callers = Idle
  /\ failStreak = 0
  /\ okStreak = 0
  /\ trialCalls = 0
  /\ processor = "generic"
  /\ records = <<>>
  /\ idx = 1
  /\ pc = "done"
  /\ attempt = 0
  /\ lastError = NoError
  /\ results = <<>>
  /\ errors = <<>>
  /\ deadLetters = <<>>
  /\ attempts = <<>>
  /\ invocations = <<>>
  /\ waits = <<>>

EngineInit ==
  /\ RetryLayerAtRest
  /\ DispatcherAtRest
  /\ Budgets \in BudgetTables
  /\ Transactions = EmptyBag
  /\ eventDetail = Undefined
  /\ bpc = "idle"
  /\ pass = 0
  /\ budgets = <<>>
  /\ budgetIdx = 1
  /\ currentSpending = 0
  /\ trace = NewTrace(0)
  /\ prev = {}
  /\ NothingElse

\* what the engine's steps leave alone
EngineFrame ==
  UNCHANGED <<cb, batchVars, breakerVars, dispatchVars, call, inflight>>

\* no call of processTransactionEvent is in progress
EngineIdle == bpc \in {"idle", "returned"}

\* the trace with one more failed call, when the call failed
Noting(t, ok, what) == IF ok THEN t ELSE [t EXCEPT !.failures = @ \cup {what}]

\* a transaction is created in the store
CreateTransaction(t) ==
  /\ EngineIdle
  /\ pass < MaxPasses
  /\ BagCardinality(Transactions) < MaxTransactions
  /\ Transactions' = Transactions (+) SetToBag({t})
  /\ ev' = [op |-> "create", pass |-> pass]
  /\ UNCHANGED <<Budgets, eventDetail, bpc, pass, budgets, budgetIdx,
                 currentSpending, trace, prev>>
  /\ EngineFrame

\* no event is taken for an income event
IsIncome_Never(detail) == FALSE

\* type === 'income'
IsIncome(detail) == detail.type = "income"

\* processTransactionEvent(eventDetail, eventType) is called: the income
\* test and, for other events, entry into the try block
Deliver(e) ==
  /\ EngineIdle
  /\ pass < MaxPasses
  /\ eventDetail' = e
  /\ pass' = pass + 1
  /\ prev' = IF trace.txns = BagCardinality(Transactions)
              THEN EmittedFor(trace) ELSE {}
  /\ budgets' = <<>>
  /\ budgetIdx' = 1
  /\ currentSpending' = 0
  /\ IF IsIncome(e)
     THEN /\ bpc' = "returned"
          /\ trace' = [NewTrace(BagCardinality(Transactions)) EXCEPT !.outcome = "returned"]
     ELSE /\ bpc' = "budgets"
          /\ trace' = NewTrace(BagCardinality(Transactions))
  /\ ev' = [op |-> "deliver", pass |-> pass']
  /\ UNCHANGED <<Budgets, Transactions>>
  /\ EngineFrame

\* getUserBudgetsForCategory: the query succeeds (ok) or fails and the catch
\* block returns []; with no budget to loop over the function returns
GetUserBudgetsForCategory(ok) ==
  /\ bpc = "budgets"
  /\ budgets' = IF ok
                THEN MatchingBudgets(eventDetail.userId, eventDetail.category)
                ELSE <<>>
  /\ budgetIdx' = 1
  /\ bpc' = IF budgets' = <<>> THEN "returned" ELSE "spending"
  /\ trace' = [Noting(trace, ok, "budgets") EXCEPT
                 !.queries = @ + 1,
                 !.outcome = IF budgets' = <<>> THEN "returned" ELSE @]
  /\ ev' = [op |-> "budgets", pass |-> pass]
  /\ UNCHANGED <<Budgets, Transactions, eventDetail, pass, currentSpending, prev>>
  /\ EngineFrame

\* calculateCategorySpending: the query succeeds (ok) or fails and the catch
\* block returns 0; then percentageUsed and the threshold test
CalculateCategorySpending(ok) ==
  /\ bpc = "spending"
  /\ currentSpending' =
       IF ok THEN CategorySpending(eventDetail.userId, eventDetail.category)
       ELSE 0
  /\ LET budget == budgets[budgetIdx]
         percentageUsed == PercentageUsed(currentSpending', budget.amount)
     IN  /\ bpc' = IF ThresholdReached(percentageUsed) THEN "emit" ELSE "update"
         /\ trace' = [Noting(trace, ok, "spending") EXCEPT
                        !.queries = @ + 1,
                        !.seen = Append(@, [budgetId |-> budget.budgetId,
                                            limit |-> budget.amount,
                                            currentSpending |-> currentSpending',
                                            percentageUsed |-> percentageUsed])]
  /\ ev' = [op |-> "spending", pass |-> pass]
  /\ UNCHANGED <<Budgets, Transactions, eventDetail, pass, budgets, budgetIdx, prev>>
  /\ EngineFrame

\* emitBudgetThresholdEvent: the event is built and put on the bus; a failed
\* send (not ok) is logged and swallowed
EmitBudgetThresholdEvent(ok) ==
  /\ bpc = "emit"
  /\ LET budget == budgets[budgetIdx]
         detail == ThresholdEventDetail(
                     eventDetail.userId, budget.budgetId, eventDetail.category,
                     currentSpending, budget.amount,
                     PercentageUsed(currentSpending, budget.amount))
     IN  trace' = [Noting(trace, ok, "emit") EXCEPT
                    !.emitted = Append(@, detail),
                    !.sent = IF ok THEN Append(@, detail) ELSE @]
  /\ bpc' = "update"
  /\ ev' = [op |-> "emit", pass |-> pass]
  /\ UNCHANGED <<Budgets, Transactions, eventDetail, pass, budgets, budgetIdx,
                 currentSpending, prev>>
  /\ EngineFrame

\* a failed update is thrown on and ends the call
UpdateBudgetMetrics_Throws(ok) ==
  /\ bpc = "update"
  /\ LET budget == budgets[budgetIdx]
         values == MetricsUpdate(currentSpending,
                                 PercentageUsed(currentSpending, budget.amount),
                                 pass)
         last == budgetIdx = Len(budgets) \/ ~ok
     IN  /\ Budgets' = IF ok
                       THEN UpdatedBudgets(eventDetail.userId, budget.budgetId, values)
                       ELSE Budgets
         /\ trace' = [Noting(trace, ok, "update") EXCEPT
                        !.updates = Append(@, [budgetId |-> budget.budgetId,
                                               ok |-> ok, values |-> values]),
                        !.outcome = IF ok THEN (IF last THEN "returned" ELSE @)
                                    ELSE "thrown"]
         /\ bpc' = IF last THEN "returned" ELSE "spending"
         /\ budgetIdx' = IF last THEN budgetIdx ELSE budgetIdx + 1
  /\ ev' = [op |-> "update", pass |-> pass]
  /\ UNCHANGED <<Transactions, eventDetail, pass, budgets, currentSpending, prev>>
  /\ EngineFrame

\* the update does not wait for the emission: it may run in its place
UpdateBudgetMetrics_BeforeEmit(ok) ==
  /\ bpc \in {"emit", "update"}
  /\ LET budget == budgets[budgetIdx]
         values == MetricsUpdate(currentSpending,
                                 PercentageUsed(currentSpending, budget.amount),
                                 pass)
         last == budgetIdx = Len(budgets)
     IN  /\ Budgets' = IF ok
                       THEN UpdatedBudgets(eventDetail.userId, budget.budgetId, values)
                       ELSE Budgets
         /\ trace' = [Noting(trace, ok, "update") EXCEPT
                        !.updates = Append(@, [budgetId |-> budget.budgetId,
                                               ok |-> ok, values |-> values]),
                        !.outcome = IF last THEN "returned" ELSE @]
         /\ bpc' = IF last THEN "returned" ELSE "spending"
         /\ budgetIdx' = IF last THEN budgetIdx ELSE budgetIdx + 1
  /\ ev' = [op |-> "update", pass |-> pass]
  /\ UNCHANGED <<Transactions, eventDetail, pass, budgets, currentSpending, prev>>
  /\ EngineFrame

\* updateBudgetMetrics: the update succeeds (ok) or fails and is swallowed;
\* then the loop moves on and, after the last budget, the function returns
UpdateBudgetMetrics(ok) ==
  /\ bpc = "update"
  /\ LET budget == budgets[budgetIdx]
         values == MetricsUpdate(currentSpending,
                                 PercentageUsed(currentSpending, budget.amount),
                                 pass)
         last == budgetIdx = Len(budgets)
     IN  /\ Budgets' = IF ok
                       THEN UpdatedBudgets(eventDetail.userId, budget.budgetId, values)
                       ELSE Budgets
         /\ trace' = [Noting(trace, ok, "update") EXCEPT
                        !.updates = Append(@, [budgetId |-> budget.budgetId,
                                               ok |-> ok, values |-> values]),
                        !.outcome = IF last THEN "returned" ELSE @]
         /\ bpc' = IF last THEN "returned" ELSE "spending"
         /\ budgetIdx' = IF last THEN budgetIdx ELSE budgetIdx + 1
  /\ ev' = [op |-> "update", pass |-> pass]
  /\ UNCHANGED <<Transactions, eventDetail, pass, budgets, currentSpending, prev>>
  /\ EngineFrame

EngineNext ==
  \/ \E t \in TransactionSamples : CreateTransaction(t)
  \/ \E e \in EventSamples : Deliver(e)
  \/ \E ok \in BOOLEAN : GetUserBudgetsForCategory(ok)
  \/ \E ok \in BOOLEAN : CalculateCategorySpending(ok)
  \/ \E ok \in BOOLEAN : EmitBudgetThresholdEvent(ok)
  \/ \E ok \in BOOLEAN : UpdateBudgetMetrics(ok)

\* the engine over a store that transactions are added to
SpecEngine == EngineInit /\ [][EngineNext]_vars

(***************************************************************************)
(* The Notification Dispatcher: processBudgetThresholdNotification of the  *)
(* notification handler, over the user's item of table Users, the console  *)
(* and the event bus.                                                      *)
(***************************************************************************)
Bool(b) == [t |-> "boolean", v |-> b]

\* notificationPreferences with budgetAlerts as given
Preferences(budgetAlerts) == [t |-> "object", budgetAlerts |-> budgetAlerts]

\* an item of table Users
UserItem(notificationPreferences, notificationHistory) ==
  [t |-> "object", notificationPreferences |-> notificationPreferences,
   notificationHistory |-> notificationHistory]

\* the profile getUserProfile returns in place of a missing item or of a
\* failed read
DefaultProfile == UserItem(Preferences(Bool(TRUE)), <<>>)

\* what the user's item may be before any notification
UserSamples ==
  { Undefined,
    UserItem(Undefined, <<>>),
    UserItem(Preferences(Bool(TRUE)), <<>>),
    UserItem(Preferences(Bool(FALSE)), <<>>) }

\* const { notificationPreferences = {} } = userProfile
NotificationPreferences(profile) ==
  IF profile.notificationPreferences = Undefined
  THEN Preferences(Undefined)
  ELSE profile.notificationPreferences

\* notificationPreferences.budgetAlerts === false
AlertsDisabled(profile) ==
  NotificationPreferences(profile).budgetAlerts = Bool(FALSE)

\* the notificationHistory attribute of the user's item
HistoryOf(item) == IF item = Undefined THEN <<>> ELSE item.notificationHistory

\* title and urgency of createNotificationMessage
NotificationMessage(detail) ==
  IF detail.thresholdType = "exceeded"
  THEN [title |-> "Budget Exceeded", category |-> detail.category,
        urgency |-> "high"]
  ELSE [title |-> "Budget Alert", category |-> detail.category,
        urgency |-> "medium"]

\* the record is stored before anything was sent
NotificationRecord_Pending(detail) ==
  [userId |-> detail.userId, budgetId |-> detail.budgetId,
   category |-> detail.category, type |-> "budget_threshold",
   thresholdType |-> detail.thresholdType,
   currentSpending |-> detail.currentSpending, limit |-> detail.limit,
   percentageUsed |-> detail.percentageUsed, channel |-> "email",
   status |-> "pending"]

\* notificationRecord of storeNotificationHistory
NotificationRecord(detail) ==
  [userId |-> detail.userId, budgetId |-> detail.budgetId,
   category |-> detail.category, type |-> "budget_threshold",
   thresholdType |-> detail.thresholdType,
   currentSpending |-> detail.currentSpending, limit |-> detail.limit,
   percentageUsed |-> detail.percentageUsed, channel |-> "console",
   status |-> "sent"]

\* the Detail of createNotificationSentEvent, as emitNotificationSentEvent
\* fills it
NotificationSentDetail(detail) ==
  [userId |-> detail.userId, budgetId |-> detail.budgetId,
   category |-> detail.category, notificationType |-> "budget_threshold",
   thresholdType |-> detail.thresholdType, channel |-> "console"]

\* list_append(if_not_exists(notificationHistory, []), [record]) on the
\* user's item, which the update creates when it is missing
WithHistory(item, record) ==
  IF item = Undefined
  THEN UserItem(Undefined, <<record>>)
  ELSE [item EXCEPT !.notificationHistory = Append(@, record)]

\* the threshold events delivered to the dispatcher
ThresholdEventSamples ==
  { ThresholdEventDetail(Str("u1"), Str("b1"), Food, 170, 200,
                         PercentageUsed(170, 200)),
    ThresholdEventDetail(Str("u1"), Str("b1"), Food, 220, 200,
                         PercentageUsed(220, 200)) }

DispatcherInit ==
  /\ RetryLayerAtRest
  /\ EngineAtRest
  /\ Users \in UserSamples
  /\ thresholdEvent = Undefined
  /\ npc = "idle"
  /\ userProfile = Undefined
  /\ console = <<>>
  /\ auditBus = <<>>
  /\ dispatched = 0
  /\ ntrace = NewNotificationTrace(0, 0, 0)
  /\ NothingElse

\* what the dispatcher's steps leave alone
DispatcherFrame ==
  UNCHANGED <<cb, batchVars, breakerVars, engineVars, call, inflight>>

\* the trace with one more failed call, when the call failed
NotingFailure(t, ok, what) ==
  IF ok THEN t ELSE [t EXCEPT !.failures = @ \cup {what}]

\* processBudgetThresholdNotification(eventDetail) is called
Dispatch(e) ==
  /\ npc \in {"idle", "returned"}
  /\ dispatched < MaxDispatches
  /\ thresholdEvent' = e
  /\ dispatched' = dispatched + 1
  /\ userProfile' = Undefined
  /\ npc' = "profile"
  /\ ntrace' = NewNotificationTrace(Len(console), Len(HistoryOf(Users)),
                                    Len(auditBus))
  /\ ev' = [op |-> "dispatch", call |-> dispatched']
  /\ UNCHANGED <<Users, console, auditBus>>
  /\ DispatcherFrame

\* getUserProfile: the read succeeds (ok) and gives the item or, when there
\* is none, the default profile; a failed read gives the default profile
GetUserProfile(ok) ==
  /\ npc = "profile"
  /\ userProfile' = IF ok THEN Or(Users, DefaultProfile) ELSE DefaultProfile
  /\ npc' = "send"
  /\ ntrace' = NotingFailure(ntrace, ok, "profile")
  /\ ev' = [op |-> "profile", call |-> dispatched]
  /\ UNCHANGED <<Users, thresholdEvent, console, auditBus, dispatched>>
  /\ DispatcherFrame

\* createNotificationMessage and sendNotification: nothing is printed for a
\* profile with budget alerts disabled
SendNotification ==
  /\ npc = "send"
  /\ console' = IF AlertsDisabled(userProfile) THEN console
                ELSE Append(console,
                            [userId |-> thresholdEvent.userId,
                             budgetId |-> thresholdEvent.budgetId,
                             type |-> thresholdEvent.thresholdType,
                             message |-> NotificationMessage(thresholdEvent)])
  /\ npc' = "history"
  /\ ev' = [op |-> "send", call |-> dispatched]
  /\ UNCHANGED <<Users, thresholdEvent, userProfile, auditBus, dispatched, ntrace>>
  /\ DispatcherFrame

\* a failed history update is thrown on and ends the call
StoreNotificationHistory_Throws(ok) ==
  /\ npc = "history"
  /\ Users' = IF ok THEN WithHistory(Users, NotificationRecord(thresholdEvent))
              ELSE Users
  /\ npc' = IF ok THEN "audit" ELSE "returned"
  /\ ntrace' = [NotingFailure(ntrace, ok, "history") EXCEPT
                  !.outcome = IF ok THEN @ ELSE "thrown"]
  /\ ev' = [op |-> "history", call |-> dispatched]
  /\ UNCHANGED <<thresholdEvent, userProfile, console, auditBus, dispatched>>
  /\ DispatcherFrame

\* storeNotificationHistory: the update succeeds (ok) or fails and is
\* swallowed
StoreNotificationHistory(ok) ==
  /\ npc = "history"
  /\ Users' = IF ok THEN WithHistory(Users, NotificationRecord(thresholdEvent))
              ELSE Users
  /\ npc' = "audit"
  /\ ntrace' = NotingFailure(ntrace, ok, "history")
  /\ ev' = [op |-> "history", call |-> dispatched]
  /\ UNCHANGED <<thresholdEvent, userProfile, console, auditBus, dispatched>>
  /\ DispatcherFrame

\* emitNotificationSentEvent: the send succeeds (ok) or fails and is
\* swallowed; then processBudgetThresholdNotification returns
EmitNotificationSentEvent(ok) ==
  /\ npc = "audit"
  /\ auditBus' = IF ok THEN Append(auditBus, NotificationSentDetail(thresholdEvent))
                 ELSE auditBus
  /\ npc' = "returned"
  /\ ntrace' = [NotingFailure(ntrace, ok, "audit") EXCEPT !.outcome = "returned"]
  /\ ev' = [op |-> "audit", call |-> dispatched]
  /\ UNCHANGED <<Users, thresholdEvent, userProfile, console, dispatched>>
  /\ DispatcherFrame

DispatcherNext ==
  \/ \E e \in ThresholdEventSamples : Dispatch(e)
  \/ \E ok \in BOOLEAN : GetUserProfile(ok)
  \/ SendNotification
  \/ \E ok \in BOOLEAN : StoreNotificationHistory(ok)
  \/ \E ok \in BOOLEAN : EmitNotificationSentEvent(ok)

\* the dispatcher over one user's item
SpecDispatcher == DispatcherInit /\ [][DispatcherNext]_vars

(***************************************************************************)
(* Several invocations of the budget calculator at the same time, one      *)
(* event each, over the same tables.  Each invocation has its own locals;  *)
(* its steps are the awaited calls of processTransactionEvent, and the     *)
(* steps of different invocations interleave in any order, as do the       *)
(* writes of new transactions.                                             *)
(***************************************************************************)
\* the two invocations in flight
Invocations == {1, 2}

\* the locals of an invocation that has not started
NotInvoked ==
  [pc |-> "idle", eventDetail |-> Undefined, budgets |-> <<>>,
   budgetIdx |-> 1, currentSpending |-> 0, sent |-> <<>>, failed |-> FALSE]

\* the transactions written while invocations run: food expenses of 140
ConcurrentTransactionSamples ==
  { TransactionItem("u1", Food, "expense", 140) }

\* the events of those transactions
ConcurrentEventSamples ==
  { TransactionDetail(Food, "expense", 140) }

ConcurrentInit ==
  /\ RetryLayerAtRest
  /\ DispatcherAtRest
  /\ call = Undefined
  /\ Budgets \in BudgetTables
  /\ Transactions = EmptyBag
  /\ eventDetail = Undefined
  /\ bpc = "idle"
  /\ pass = 0
  /\ budgets = <<>>
  /\ budgetIdx = 1
  /\ currentSpending = 0
  /\ trace = NewTrace(0)
  /\ prev = {}
  /\ inflight = [w \in Invocations |-> NotInvoked]

\* what the steps of concurrent invocations leave alone
ConcurrentFrame ==
  UNCHANGED <<cb, batchVars, breakerVars, dispatchVars, call, eventDetail,
              bpc, budgets, budgetIdx, currentSpending, trace, prev>>

\* the locals of invocation w, which remember whether a call of it failed
NotingIn(w, ok) ==
  IF ok THEN inflight[w] ELSE [inflight[w] EXCEPT !.failed = TRUE]

\* what the loop body reads of a budget it was given
Read(budget) == [budgetId |-> budget.budgetId, amount |-> budget.amount]

\* a transaction is written to the store
WriteTransaction(t) ==
  /\ BagCardinality(Transactions) < MaxTransactions
  /\ Transactions' = Transactions (+) SetToBag({t})
  /\ ev' = [op |-> "create", worker |-> 0]
  /\ UNCHANGED <<Budgets, pass, inflight>>
  /\ ConcurrentFrame

\* invocation w starts on event e, the event of a transaction written
\* before and not yet handled: the income test and entry into the try
\* block; invocations start in the order of their numbers
Invoke(w, e) ==
  /\ inflight[w].pc = "idle"
  /\ IF w = 1 THEN TRUE ELSE inflight[w - 1].pc # "idle"
  /\ CopiesIn(TransactionItem("u1", e.category, e.type, e.amount),
              Transactions) > pass
  /\ pass' = pass + 1
  /\ inflight' = [inflight EXCEPT ![w] =
                    [NotInvoked EXCEPT
                       !.pc = IF IsIncome(e) THEN "returned" ELSE "budgets",
                       !.eventDetail = e]]
  /\ ev' = [op |-> "deliver", worker |-> w]
  /\ UNCHANGED <<Budgets, Transactions>>
  /\ ConcurrentFrame

\* getUserBudgetsForCategory in invocation w
GetUserBudgetsForCategoryIn(w, ok) ==
  /\ inflight[w].pc = "budgets"
  /\ LET me == inflight[w]
         matching == MatchingBudgets(me.eventDetail.userId,
                                     me.eventDetail.category)
         found == IF ok THEN [i \in 1..Len(matching) |-> Read(matching[i])]
                  ELSE <<>>
     IN  inflight' = [inflight EXCEPT ![w] =
                        [NotingIn(w, ok) EXCEPT
                           !.budgets = found,
                           !.pc = IF found = <<>> THEN "returned"
                                  ELSE "spending"]]
  /\ ev' = [op |-> "budgets", worker |-> w]
  /\ UNCHANGED <<Budgets, Transactions, pass>>
  /\ ConcurrentFrame

\* calculateCategorySpending in invocation w, then percentageUsed and the
\* threshold test
CalculateCategorySpendingIn(w, ok) ==
  /\ inflight[w].pc = "spending"
  /\ LET me == inflight[w]
         spending == IF ok THEN CategorySpending(me.eventDetail.userId,
                                                 me.eventDetail.category)
                     ELSE 0
         budget == me.budgets[me.budgetIdx]
         percentageUsed == PercentageUsed(spending, budget.amount)
     IN  inflight' = [inflight EXCEPT ![w] =
                        [NotingIn(w, ok) EXCEPT
                           !.currentSpending = spending,
                           !.pc = IF AtLeast(percentageUsed, WarningThreshold)
                                  THEN "emit" ELSE "update"]]
  /\ ev' = [op |-> "spending", worker |-> w]
  /\ UNCHANGED <<Budgets, Transactions, pass>>
  /\ ConcurrentFrame

\* emitBudgetThresholdEvent in invocation w
EmitBudgetThresholdEventIn(w, ok) ==
  /\ inflight[w].pc = "emit"
  /\ LET me == inflight[w]
         budget == me.budgets[me.budgetIdx]
         detail == ThresholdEventDetail(
                     me.eventDetail.userId, budget.budgetId,
                     me.eventDetail.category, me.currentSpending,
                     budget.amount,
                     PercentageUsed(me.currentSpending, budget.amount))
     IN  inflight' = [inflight EXCEPT ![w] =
                        [NotingIn(w, ok) EXCEPT
                           !.sent = IF ok THEN Append(@, detail) ELSE @,
                           !.pc = "update"]]
  /\ ev' = [op |-> "emit", worker |-> w]
  /\ UNCHANGED <<Budgets, Transactions, pass>>
  /\ ConcurrentFrame

\* updateBudgetMetrics in invocation w, then on to the next budget or out
UpdateBudgetMetricsIn(w, ok) ==
  /\ inflight[w].pc = "update"
  /\ LET me == inflight[w]
         budget == me.budgets[me.budgetIdx]
         values == MetricsUpdate(
                     me.currentSpending,
                     PercentageUsed(me.currentSpending, budget.amount), pass)
         last == me.budgetIdx = Len(me.budgets)
     IN  /\ Budgets' = IF ok
                       THEN UpdatedBudgets(me.eventDetail.userId,
                                           budget.budgetId, values)
                       ELSE Budgets
         /\ inflight' = [inflight EXCEPT ![w] =
                           [NotingIn(w, ok) EXCEPT
                              !.pc = IF last THEN "returned" ELSE "spending",
                              !.budgetIdx = IF last THEN @ ELSE @ + 1]]
         /\ ev' = [op |-> "update", worker |-> w, ok |-> ok,
                   budgetId |-> budget.budgetId]
  /\ UNCHANGED <<Transactions, pass>>
  /\ ConcurrentFrame

ConcurrentNext ==
  \/ \E t \in ConcurrentTransactionSamples : WriteTransaction(t)
  \/ \E w \in Invocations :
       \/ \E e \in ConcurrentEventSamples : Invoke(w, e)
       \/ \E ok \in BOOLEAN : GetUserBudgetsForCategoryIn(w, ok)
       \/ \E ok \in BOOLEAN : CalculateCategorySpendingIn(w, ok)
       \/ \E ok \in BOOLEAN : EmitBudgetThresholdEventIn(w, ok)
       \/ \E ok \in BOOLEAN : UpdateBudgetMetricsIn(w, ok)

\* invocations of the budget calculator running at the same time
SpecConcurrent == ConcurrentInit /\ [][ConcurrentNext]_vars

(***************************************************************************)
(* Engine and dispatcher together: a user with one food budget of 200      *)
(* whose food expenses so far total 140 records an expense of 60; the      *)
(* Transaction Created event reaches processTransactionEvent, and every    *)
(* Budget Threshold Reached event it put on the bus reaches                *)
(* processBudgetThresholdNotification once.                                *)
(***************************************************************************)
NewExpense == TransactionItem("u1", Food, "expense", 60)

\* the user's one budget: by category, or by name with no category set
OneFoodBudget ==
  { <<BudgetItem("b1", Chars(<<"M","e","a","l","s">>), Food, 200)>>,
    <<BudgetItem("b1", Chars(<<"F","o","o","d">>), Undefined, 200)>> }

\* the store before the new expense: food expenses of 140 in all
EarlierTransactions ==
  { SetToBag({TransactionItem("u1", Food, "expense", 140)}),
    SetToBag({TransactionItem("u1", Food, "expense", 100),
              TransactionItem("u1", Food, "expense", 40)}),
    SetToBag({TransactionItem("u1", Food, "expense", 140),
              TransactionItem("u1", Food, "income", 500)}) }

EndToEndInit ==
  /\ RetryLayerAtRest
  /\ NothingElse
  /\ Budgets \in OneFoodBudget
  /\ Transactions \in EarlierTransactions
  /\ eventDetail = Undefined
  /\ bpc = "idle"
  /\ pass = 0
  /\ budgets = <<>>
  /\ budgetIdx = 1
  /\ currentSpending = 0
  /\ trace = NewTrace(0)
  /\ prev = {}
  /\ Users \in UserSamples
  /\ thresholdEvent = Undefined
  /\ npc = "idle"
  /\ userProfile = Undefined
  /\ console = <<>>
  /\ auditBus = <<>>
  /\ dispatched = 0
  /\ ntrace = NewNotificationTrace(0, 0, 0)

\* createTransaction stores the new expense
StoreNewExpense ==
  /\ BagIn(NewExpense, Transactions) = FALSE
  /\ CreateTransaction(NewExpense)

\* its Transaction Created event reaches the budget calculator
DeliverCreated ==
  /\ pass = 0
  /\ BagIn(NewExpense, Transactions)
  /\ Deliver(TransactionDetail(NewExpense.category, NewExpense.type,
                               NewExpense.amount))

\* the bus hands the next Budget Threshold Reached event of the finished
\* call to the notification handler
DeliverThresholdEvent ==
  /\ bpc = "returned"
  /\ dispatched < Len(trace.sent)
  /\ Dispatch(trace.sent[dispatched + 1])

EndToEndNext ==
  \/ StoreNewExpense
  \/ DeliverCreated
  \/ \E ok \in BOOLEAN : GetUserBudgetsForCategory(ok)
  \/ \E ok \in BOOLEAN : CalculateCategorySpending(ok)
  \/ \E ok \in BOOLEAN : EmitBudgetThresholdEvent(ok)
  \/ \E ok \in BOOLEAN : UpdateBudgetMetrics(ok)
  \/ DeliverThresholdEvent
  \/ \E ok \in BOOLEAN : GetUserProfile(ok)
  \/ SendNotification
  \/ \E ok \in BOOLEAN : StoreNotificationHistory(ok)
  \/ \E ok \in BOOLEAN : EmitNotificationSentEvent(ok)

\* one expense from the store to the user's notification history
SpecEndToEnd == EndToEndInit /\ [][EndToEndNext]_vars

(***************************************************************************)
(* The functions of errorHandling.js one call at a time: classifyError on  *)
(* any thrown value, calculateDelay on any attempt and config, and         *)
(* retryWithBackoff around an operation that rejects with the same value   *)
(* a number of times and then resolves.                                    *)
(***************************************************************************)
MessageSamples ==
  {Undefined, Null, Num(42),
   Chars(<<"b","o","o","m">>),
   Chars(<<"C","o","n","n","e","c","t","i","o","n"," ","l","o","s","t">>),
   Chars(<<"R","e","q","u","e","s","t"," ","T","I","M","E","O","U","T">>)}

CodeSamples ==
  {Undefined, Str("ThrottlingException"), Str("ValidationException"),
   Str("TimeoutError"), Str("AccessDeniedException")}

StatusSamples == {Undefined, Num(429), Num(400), Num(403), Num(503)}

\* what an operation may reject with
ThrownSamples ==
  {Undefined, Null, Str("boom")}
    \cup {Thrown(message, code, statusCode) :
            message \in MessageSamples, code \in CodeSamples,
            statusCode \in StatusSamples}

\* configs handed to calculateDelay
ConfigSamples ==
  {[RETRY_CONFIG EXCEPT !.baseDelayMs = base, !.backoffMultiplier = multiplier,
                        !.maxDelayMs = cap, !.jitterEnabled = jitter] :
     base \in {BaseDelayMs, BaseDelayMs \div 10},
     multiplier \in {1, BackoffMultiplier, BackoffMultiplier + 1},
     cap \in {MaxDelayMs, MaxDelayMs \div 6},
     jitter \in BOOLEAN}

\* a call before it runs; rejections is how often the operation of
\* retryWithBackoff rejects before it resolves
NewCall(fn, error, n, config, rejections) ==
  [fn |-> fn, error |-> error, attempt |-> n, config |-> config,
   rejections |-> rejections, outcome |-> Undefined]

CallSamples ==
  {NewCall("classifyError", error, 0, RETRY_CONFIG, 0) :
     error \in ThrownSamples}
    \cup {NewCall("calculateDelay", Undefined, n, config, 0) :
            n \in 1..MaxAttempt, config \in ConfigSamples}
    \cup {NewCall("retryWithBackoff", error, 0, RETRY_CONFIG, rejections) :
            error \in ThrownSamples, rejections \in {0, 1, MaxRetries + 1}}

FunctionsInit ==
  /\ RetryLayerAtRest
  /\ EngineAtRest
  /\ DispatcherAtRest
  /\ inflight = <<>>
  /\ call \in CallSamples

\* what a single function call leaves alone
FunctionsFrame ==
  UNCHANGED <<cb, batchVars, breakerVars, engineVars, dispatchVars, inflight>>

Pending(fn) == call.fn = fn /\ call.outcome = Undefined

\* classifyError(error)
CallClassifyError ==
  /\ Pending("classifyError")
  /\ call' = [call EXCEPT !.outcome = ClassifyThrown(call.error)]
  /\ ev' = [op |-> "classifyError"]
  /\ FunctionsFrame

\* calculateDelay(attempt, config), Math.random() returning q/4
CallCalculateDelay(q) ==
  /\ Pending("calculateDelay")
  /\ call' = [call EXCEPT !.outcome =
                Returns(Num(CalculateDelayWith(call.attempt, call.config, q)))]
  /\ ev' = [op |-> "calculateDelay"]
  /\ FunctionsFrame

\* one turn of the for loop of retryWithBackoff: the operation resolves, or
\* it rejects and the catch block classifies the value, which may throw,
\* and then breaks out to the final throw or goes round again
RetryWithBackoffAttempt ==
  /\ Pending("retryWithBackoff")
  /\ LET errorType == ClassifyThrown(call.error)
     IN  call' =
           IF call.attempt >= call.rejections
           THEN [call EXCEPT !.outcome = Returns(Str("result"))]
           ELSE IF errorType.t = "throw"
           THEN [call EXCEPT !.outcome = errorType]
           ELSE IF call.attempt = call.config.maxRetries
                   \/ ~ShouldRetry(errorType.v, call.attempt)
           THEN [call EXCEPT !.outcome = Raises("NonRetryableError")]
           ELSE [call EXCEPT !.attempt = @ + 1]
  /\ ev' = [op |-> "retryWithBackoff"]
  /\ FunctionsFrame

FunctionsNext ==
  \/ CallClassifyError
  \/ \E q \in RandomQuarters : CallCalculateDelay(q)
  \/ RetryWithBackoffAttempt

\* one call of one function
SpecFunctions == FunctionsInit /\ [][FunctionsNext]_vars

(***************************************************************************)
(* Properties of the batch processor and the retry executor (Spec).        *)
(***************************************************************************)
\* record i has left the for loop of processEventWithRetry
Finished(i) == i < idx

InResults(i) ==
  \E j \in 1..Len(results) :
    results[j].recordId = Num(i) /\ results[j].status = "success"

InErrors(i) ==
  \E j \in 1..Len(errors) :
    errors[j].recordId = Num(i) /\ errors[j].status = "failed"

\* the last step was a failed attempt of operation()
FailedAttempt == ev.op \in {"reject", "throw"}

\* C1: a call that execute refuses because the breaker is OPEN is never
\* retried: the rejection ends the record's retry loop at once, with no
\* further attempt and no backoff wait.
C1_CircuitOpenNotRetried ==
  ev.op = "reject" => /\ ev.final
                      /\ Finished(ev.rec)
                      /\ InErrors(ev.rec)

\* the handler of record i succeeds when the record is processed alone
SucceedsAlone(i) == Processor(processor, records[i], 1).ok

CircuitOpenExhausted ==
  <<"O","p","e","r","a","t","i","o","n"," ","f","a","i","l","e","d"," ","a","f","t","e","r"," ","4"," ","a","t","t","e","m","p","t","s","."," ","L","a","s","t"," ","e","r","r","o","r",":"," ","C","i","r","c","u","i","t"," ","b","r","e","a","k","e","r"," ","i","s"," ","O","P","E","N"," ","-"," ","o","p","e","r","a","t","i","o","n"," ","n","o","t"," ","a","l","l","o","w","e","d">>

RefusedThroughout(i) ==
  /\ invocations[i] = 0
  /\ attempts[i] = MaxRetries + 1
  /\ \E j \in 1..Len(errors) :
       errors[j].recordId = Num(i) /\ errors[j].error = CircuitOpenExhausted

\* the batch of the spec's example: records 1 and 3 valid, record 2 without
\* category
IsExampleBatch ==
  /\ processor = "budgetCalculator"
  /\ Len(records) = 3
  /\ \A i \in {1, 3} : SucceedsAlone(i)
  /\ records[2].detailType = Chars(<<"T","r","a","n","s","a","c","t","i","o","n"," ","U","p","d","a","t","e","d">>)
  /\ ~Truthy(records[2].detail.category)

C2_Witness ==
  /\ pc = "done"
  /\ Len(records) = 3
  /\ InErrors(1) /\ InErrors(2)
  /\ SucceedsAlone(3) /\ RefusedThroughout(3)

LacksRequiredField(i) ==
  /\ processor = "budgetCalculator"
  /\ ~BudgetCalculatorProcessor(records[i]).ok

\* C3: a budget-calculator record without userId or category is a
\* non-retryable failure: its handler runs exactly once, no backoff wait
\* happens for it, and it ends in the errors list.
C3_MissingFieldsFailOnce ==
  \A i \in 1..Len(records) :
    LacksRequiredField(i) =>
      /\ invocations[i] <= 1
      /\ waits[i] = 0
      /\ Finished(i) => (invocations[i] = 1 /\ InErrors(i))

Retryable(errorType) ==
  errorType \in {"TRANSIENT", "NETWORK", "TIMEOUT", "THROTTLING"}

\* the text of the terminal error for a last failure with message m
ExhaustedText(m) == <<"O","p","e","r","a","t","i","o","n"," ","f","a","i","l","e","d"," ","a","f","t","e","r"," ","4"," ","a","t","t","e","m","p","t","s","."," ","L","a","s","t"," ","e","r","r","o","r",":"," ">> \o m

\* C9: a failure of a retryable kind ends the retry loop exactly when it is
\* the failure of attempt number maxRetries + 1, so an operation that always
\* fails that way is attempted exactly maxRetries + 1 times; the record then
\* fails with a PERMANENT error whose text wraps the message of that last
\* failure.
C9_RetryExhaustion ==
  /\ \A i \in 1..Len(records) : attempts[i] <= MaxRetries + 1
  /\ (FailedAttempt /\ Retryable(ev.errorType)) =>
       IF ev.final
       THEN /\ attempts[ev.rec] = MaxRetries + 1
            /\ Finished(ev.rec)
            /\ errors[Len(errors)] =
                 [recordId |-> Num(ev.rec), status |-> "failed",
                  error |-> ExhaustedText(ev.error.message),
                  errorType |-> "PERMANENT"]
       ELSE /\ attempts[ev.rec] <= MaxRetries
            /\ ~Finished(ev.rec)
            /\ pc = "attempt"
            /\ attempt = attempts[ev.rec]

\* a record whose handler always throws a throttling error has been given up
C9_Witness ==
  /\ ev.op = "throw"
  /\ ev.final
  /\ ev.errorType = "THROTTLING"
  /\ invocations[ev.rec] = MaxRetries + 1

\* C10: a failure that classifies as validation or permanent ends the retry
\* loop at once, at whatever attempt it happens: no attempt and no backoff
\* wait follows it, so an operation failing that way from the start is
\* attempted exactly once.
C10_NoRetryOfPermanent ==
  (FailedAttempt /\ ev.errorType \in {"VALIDATION", "PERMANENT"}) =>
    /\ ev.final
    /\ Finished(ev.rec)
    /\ InErrors(ev.rec)
    /\ attempts[ev.rec] = ev.attempt + 1
    /\ waits[ev.rec] = ev.attempt

\* a validation failure on a retry, after a retryable first failure
C10_Witness ==
  /\ ev.op = "throw"
  /\ ev.errorType = "VALIDATION"
  /\ ev.attempt = 1
  /\ attempts[ev.rec] = 2

(***************************************************************************)
(* Properties of the circuit breaker (SpecBreaker, SpecBreakerSeq).        *)
(***************************************************************************)
\* the step taken is a call of execute
IsCall(e) == e.op \in {"admit", "reject"}

\* the step taken lets a caller's operation start
StartsOperation ==
  \E c \in 1..MaxCallers : callers[c] = "idle" /\ callers'[c] = "running"

\* C4: from CLOSED the breaker opens exactly when the operations failed in a
\* row reach failureThreshold; fewer leave it CLOSED, and a success while
\* CLOSED resets the failure count to 0.
C4_ClosedOpensAtThreshold ==
  /\ [](cb.state = "CLOSED" =>
          cb.failureCount = failStreak /\ failStreak < FailureThreshold)
  /\ [][cb.state = "CLOSED" =>
          /\ ev'.op = "failure" =>
               /\ cb'.failureCount = cb.failureCount + 1
               /\ cb'.state = (IF failStreak' >= FailureThreshold
                               THEN "OPEN" ELSE "CLOSED")
          /\ ev'.op = "success" =>
               /\ cb'.failureCount = 0
               /\ cb'.state = "CLOSED"
          /\ ev'.op # "failure" => cb'.state = "CLOSED"]_vars

\* the breaker has just opened at the threshold
C4_Witness ==
  /\ cb.state = "OPEN"
  /\ ev.op = "failure"
  /\ failStreak = FailureThreshold
  /\ cb.failureCount = FailureThreshold

\* C5: while OPEN with less than recoveryTimeout elapsed, execute fails at
\* once with a non-retryable error, the operation is not invoked, and the
\* rejection changes nothing of the breaker.
C5_OpenRejectsUnchanged ==
  [][(cb.state = "OPEN" /\ ~RecoveryElapsed(cb)) =>
       /\ ~StartsOperation
       /\ IsCall(ev') =>
            /\ ev'.op = "reject"
            /\ ev'.error.name = "NonRetryableError"
            /\ ~ev'.error.isRetryable
            /\ cb' = cb
            /\ callers' = callers]_vars

\* a call was refused some time after the last failure
C5_Witness ==
  /\ ev.op = "reject"
  /\ cb.state = "OPEN"
  /\ cb.lastFailureAge > 0
  /\ cb.failureCount >= FailureThreshold

\* C6: when OPEN with recoveryTimeout elapsed, the next execute call moves
\* the breaker to HALF_OPEN with successCount 0 and invokes the operation;
\* the breaker leaves OPEN in no other way.
C6_OpenToHalfOpen ==
  [][cb.state = "OPEN" =>
       /\ (RecoveryElapsed(cb) /\ IsCall(ev')) =>
            /\ ev'.op = "admit"
            /\ StartsOperation
            /\ cb' = [cb EXCEPT !.state = "HALF_OPEN", !.successCount = 0]
       /\ cb'.state # "OPEN" =>
            /\ RecoveryElapsed(cb)
            /\ ev'.op = "admit"
            /\ cb'.state = "HALF_OPEN"]_vars

\* the breaker has entered HALF_OPEN for the second time
C6_Witness ==
  /\ ev.op = "admit"
  /\ cb.state = "HALF_OPEN"
  /\ cb.successCount = 0
  /\ cb.failureCount > FailureThreshold

\* C7: in HALF_OPEN each success increments successCount; the breaker closes,
\* with failureCount 0, exactly when 2 successes in a row have been seen,
\* and one success alone leaves it HALF_OPEN.
C7_HalfOpenCloses ==
  /\ [](cb.state = "HALF_OPEN" => cb.successCount = okStreak)
  /\ [][(cb.state = "HALF_OPEN" /\ ev'.op = "success") =>
          /\ cb'.successCount = cb.successCount + 1
          /\ IF okStreak' >= RequiredHalfOpenSuccesses
             THEN cb'.state = "CLOSED" /\ cb'.failureCount = 0
             ELSE cb'.state = "HALF_OPEN" /\ cb'.failureCount = cb.failureCount]_vars
  /\ [][(cb.state = "HALF_OPEN" /\ cb'.state = "CLOSED") =>
          ev'.op = "success"]_vars

\* the breaker has closed after two successes
C7_Witness ==
  /\ cb.state = "CLOSED"
  /\ ev.op = "success"
  /\ cb.successCount = RequiredHalfOpenSuccesses
  /\ cb.failureCount = 0

\* C8: every operation failure that completes while the breaker is HALF_OPEN
\* puts it back to OPEN, whatever calls are in flight.
C8_HalfOpenFailureReopens ==
  [][(cb.state = "HALF_OPEN" /\ ev'.op = "failure") => cb'.state = "OPEN"]_vars
(***************************************************************************)
(* Properties of the Budget Threshold Engine (SpecEngine).                 *)
(***************************************************************************)
\* a call of processTransactionEvent has been made and has ended
Returned == pass > 0 /\ bpc = "returned"

\* the store is as it was when the call in hand began
StoreAsQueried == trace.txns = BagCardinality(Transactions)

\* the threshold events the call in hand built for a budget
EventsFor(budgetId) ==
  {i \in 1..Len(trace.emitted) : trace.emitted[i].budgetId = budgetId}

\* the call in hand is past the threshold test and the emission for the
\* i-th budget it computed a spending for
Decided(i) == i < Len(trace.seen) \/ bpc # "emit"

\* C11: a failure of the budget query or of the spending query fails the
\* call with a retryable error, so that the retry executor attempts the
\* record again: a call in which such a query failed does not return
\* normally.
C11_StoreFailuresAreRetried ==
  (Returned /\ trace.failures \cap {"budgets", "spending"} # {})
    => trace.outcome # "returned"

\* C13: in every call a threshold event is built for a matching budget
\* exactly when percentageUsed >= 80, with thresholdType exceeded exactly
\* when percentageUsed >= 100 and warning otherwise; for a budget of 200 a
\* spend of 140 gives no event, 170 a warning at 85% and 220 exceeded at
\* 110%.
C13_ThresholdDecision ==
  \A i \in 1..Len(trace.seen) :
    Decided(i) =>
      LET s == trace.seen[i]
          p == s.percentageUsed
          es == {trace.emitted[j] : j \in EventsFor(s.budgetId)}
      IN  /\ (es # {}) <=> (p.num >= 80 * p.den)
          /\ \A e \in es :
               e.thresholdType =
                 IF p.num >= 100 * p.den THEN "exceeded" ELSE "warning"
          /\ (s.limit = 200 /\ s.currentSpending = 140) => es = {}
          /\ (s.limit = 200 /\ s.currentSpending = 170) =>
               \E e \in es : e.thresholdType = "warning" /\ e.percentageUsed = 8500
          /\ (s.limit = 200 /\ s.currentSpending = 220) =>
               \E e \in es : e.thresholdType = "exceeded" /\ e.percentageUsed = 11000

\* a budget of 200 found at 220 and reported as exceeded
C13_Witness ==
  /\ Returned
  /\ \E i \in 1..Len(trace.seen) :
       /\ trace.seen[i].limit = 200
       /\ trace.seen[i].currentSpending = 220
       /\ \E j \in EventsFor(trace.seen[i].budgetId) :
            trace.emitted[j].thresholdType = "exceeded"

\* C14: a call builds at most one threshold event per budget, and what
\* earlier calls built is not remembered: a budget found at 80% or more
\* gets its event in every call, also when the call before built one for
\* it and the store has not changed since.
C14_OncePerPassNoMemory ==
  \A i \in 1..Len(trace.seen) :
    LET s == trace.seen[i]
        n == Cardinality(EventsFor(s.budgetId))
    IN  /\ n <= 1
        /\ (Decided(i) /\ s.percentageUsed.num >= 80 * s.percentageUsed.den)
             => n = 1

\* a second call over an unchanged store reports the same budget again
C14_Witness ==
  /\ Returned
  /\ StoreAsQueried
  /\ \E i \in 1..Len(trace.emitted) : trace.emitted[i].budgetId \in prev

\* C15: an income event never starts a recomputation: no query is made,
\* no threshold event is built and no budget is written.
C15_IncomeExcluded ==
  (pass > 0 /\ eventDetail.type = "income") =>
    /\ bpc = "returned"
    /\ trace.queries = 0
    /\ trace.emitted = <<>>
    /\ trace.updates = <<>>

\* an income event was handled while the store held expenses
C15_Witness ==
  /\ pass > 0
  /\ eventDetail.type = "income"
  /\ bpc = "returned"
  /\ CategorySpending(Str("u1"), Food) > 0

\* C16: the currentSpending a call persists for a matching budget is the
\* sum of the amounts of the expense transactions of the event's user and
\* category in the store.
C16_FullRescan ==
  StoreAsQueried =>
    \A i \in 1..Len(trace.updates) :
      trace.updates[i].values.currentSpending =
        Num(CategorySpending(eventDetail.userId, eventDetail.category))

\* C17: a budget that a recomputation has written holds
\* percentageUsed = round2(currentSpending / amount * 100): the stored
\* percentage, in hundredths, is the integer nearest to
\* 10000 * currentSpending / amount, halves rounded up.
C17_StoredPercentage ==
  \A i \in 1..Len(Budgets) :
    LET b == Budgets[i]
    IN  b.lastCalculated # Undefined =>
          /\ b.currentSpending.t = "number"
          /\ b.percentageUsed.t = "number"
          /\ 2 * b.amount * b.percentageUsed.v
               <= 20000 * b.currentSpending.v + b.amount
          /\ 20000 * b.currentSpending.v + b.amount
               < 2 * b.amount * (b.percentageUsed.v + 1)

\* a stored percentage that rounding moved up: 140 of 300 is 46.67
C17_Witness ==
  \E i \in 1..Len(Budgets) :
    /\ Budgets[i].amount = 300
    /\ Budgets[i].currentSpending = Num(140)
    /\ Budgets[i].percentageUsed = Num(4667)

\* C18: every call attempts the update of currentSpending, percentageUsed
\* and lastCalculated for every matching budget, also below 80%, and a
\* failed update neither fails the call nor stops the loop: the call
\* returns normally with one update attempted per matching budget.
C18_PersistAlways ==
  /\ \A i \in 1..Len(trace.updates) :
       LET u == trace.updates[i]
       IN  /\ i <= Len(budgets)
           /\ u.budgetId = budgets[i].budgetId
           /\ u.values.currentSpending.t = "number"
           /\ u.values.percentageUsed.t = "number"
           /\ u.values.lastCalculated = Num(pass)
  /\ (Returned /\ eventDetail.type # "income") =>
       /\ Len(trace.updates) = Len(budgets)
       /\ trace.outcome = "returned"

\* the first update of a call failed, the second budget, below 80%, was
\* still written and the call returned
C18_Witness ==
  /\ Returned
  /\ Len(trace.updates) = 2
  /\ ~trace.updates[1].ok
  /\ trace.updates[2].ok
  /\ trace.seen[2].percentageUsed.num < 80 * trace.seen[2].percentageUsed.den
  /\ Budgets[2].lastCalculated = Num(pass)
  /\ trace.outcome = "returned"

(***************************************************************************)
(* Properties of the Notification Dispatcher (SpecDispatcher).             *)
(***************************************************************************)
\* C12: when the profile the dispatcher resolved has budget alerts
\* disabled, the call is a no-op: nothing is printed, no record is appended
\* to the history, no Notification Sent event is put on the bus, and the
\* call returns normally.
C12_DisabledAlertsNoOp ==
  (npc = "returned" /\ AlertsDisabled(userProfile)) =>
    /\ Len(console) = ntrace.console
    /\ Len(HistoryOf(Users)) = ntrace.history
    /\ Len(auditBus) = ntrace.audit
    /\ ntrace.outcome = "returned"

(***************************************************************************)
(* Further properties of the batch processor (Spec).                       *)
(***************************************************************************)
\* the entries of a list of results or errors that are about record i
EntriesOf(list, i) == {j \in 1..Len(list) : list[j].recordId = Num(i)}

\* what handleDeadLetterQueue has logged for record i
DeadLettersOf(i) ==
  {j \in 1..Len(deadLetters) : deadLetters[j].messageId = Num(i)}

\* C19: processEventWithRetry returns normally whatever records failed: a
\* record's terminal failure moves the loop to the next record, every
\* record that has left the loop has exactly one entry, in results or in
\* errors, and the summary returned has
\* totalRecords = successCount + errorCount = number of input records.
C19_SummaryAccounts ==
  /\ \A i \in 1..Len(records) :
       Cardinality(EntriesOf(results, i)) + Cardinality(EntriesOf(errors, i))
         = IF Finished(i) THEN 1 ELSE 0
  /\ (pc = "done") <=> (idx = Len(records) + 1)
  /\ (FailedAttempt /\ ev.final) =>
       /\ idx = ev.rec + 1
       /\ pc = IF ev.rec = Len(records) THEN "done" ELSE "attempt"
  /\ pc = "done" =>
       /\ Summary.totalRecords = Len(records)
       /\ Summary.totalRecords = Summary.successCount + Summary.errorCount

\* a batch of three has ended with successes and failures
C19_Witness ==
  /\ pc = "done"
  /\ Len(records) = 3
  /\ Summary.successCount > 0
  /\ Summary.errorCount > 0

\* C20: a record whose processing ends in a terminal failure is handed to
\* the dead-letter sink exactly once and is recorded in errors; a record
\* that succeeds is never handed to the dead-letter sink and is recorded in
\* results.
C20_DeadLetterOnce ==
  \A i \in 1..Len(records) :
    /\ InErrors(i) <=> Cardinality(DeadLettersOf(i)) = 1
    /\ Cardinality(DeadLettersOf(i)) <= 1
    /\ InResults(i) => DeadLettersOf(i) = {}
    /\ Finished(i) => (InResults(i) \/ InErrors(i))
    /\ \A j \in DeadLettersOf(i) :
         \E k \in EntriesOf(errors, i) :
           errors[k].errorType = deadLetters[j].errorType

\* a batch has ended with a dead-lettered record between two successes
C20_Witness ==
  /\ pc = "done"
  /\ Len(records) = 3
  /\ InResults(1) /\ InErrors(2) /\ InResults(3)
  /\ Len(deadLetters) = 1

\* C21: a failure of the history update or of the Notification Sent
\* emission never fails the call: after a failed history update the
\* emission is still attempted, and the call returns normally whichever of
\* the two failed, so that the record is a success and is not retried.
C21_SecondaryFailuresSwallowed ==
  /\ ("history" \in ntrace.failures) => npc \in {"audit", "returned"}
  /\ ntrace.failures \cap {"history", "audit"} # {} => ntrace.outcome # "thrown"
  /\ npc = "returned" =>
       /\ ntrace.outcome = "returned"
       /\ Len(auditBus) = ntrace.audit + 1 \/ "audit" \in ntrace.failures
       /\ Len(HistoryOf(Users)) = ntrace.history + 1 \/ "history" \in ntrace.failures

\* a call returned although both the history update and the emission failed
C21_Witness ==
  /\ npc = "returned"
  /\ {"history", "audit"} \subseteq ntrace.failures
  /\ ntrace.outcome = "returned"

(***************************************************************************)
(* Properties of the breaker under concurrent callers (SpecBreaker).       *)
(***************************************************************************)
\* C26: with several execute calls in flight the breaker is always as some
\* sequential order of them would leave it: while it is OPEN or HALF_OPEN
\* its failure count is at least failureThreshold, and the success of an
\* operation let in while CLOSED that ends after the breaker opened does
\* not reset the count.
C26_OpenKeepsFailureCount ==
  /\ cb.state \in {"OPEN", "HALF_OPEN"} => cb.failureCount >= FailureThreshold
  /\ [][(cb.state = "OPEN" /\ ev'.op = "success")
          => cb'.failureCount = cb.failureCount]_vars

\* C27: from the moment the breaker becomes HALF_OPEN to its next change to
\* CLOSED or OPEN, execute lets in at most requiredHalfOpenSuccesses
\* operations, also when the calls overlap.
C27_OneTrialWave == trialCalls <= RequiredHalfOpenSuccesses

(***************************************************************************)
(* Properties of single function calls (SpecFunctions).                    *)
(***************************************************************************)
\* the call has ended
Ended(fn) == call.fn = fn /\ call.outcome # Undefined

\* C23: classifyError never throws and returns one of the six kinds for any
\* value, null, undefined and an object whose message is not a string
\* included; so retryWithBackoff always ends with the operation's result or
\* with its own NonRetryableError.
C23_ClassifierTotal ==
  /\ Ended("classifyError") =>
       call.outcome.t = "return" /\ call.outcome.v \in ERROR_TYPES
  /\ Ended("retryWithBackoff") =>
       call.outcome.t = "return" \/ call.outcome = Raises("NonRetryableError")

\* the HTTP status of a thrown value
StatusOf(error) ==
  LET statusCode == PropertyOf(error, "statusCode")
      code == PropertyOf(error, "code")
  IN  IF statusCode.t = "number" THEN statusCode ELSE code

\* the kind the stated precedence gives a thrown object with a string message
KindByPrecedence(error) ==
  LET message == ToLowerCase(error.message.v)
      status == StatusOf(error)
  IN  IF error.code \in {Str("ProvisionedThroughputExceededException"),
                         Str("ThrottlingException")}
      THEN "THROTTLING"
      ELSE IF error.code \in {Str("ValidationException"),
                              Str("ConditionalCheckFailedException")}
      THEN "VALIDATION"
      ELSE IF \/ Includes(message, <<"t","i","m","e","o","u","t">>)
              \/ Includes(message, <<"e","t","i","m","e","d","o","u","t">>)
              \/ error.code = Str("TimeoutError")
      THEN "TIMEOUT"
      ELSE IF \/ Includes(message, <<"n","e","t","w","o","r","k">>)
              \/ Includes(message, <<"c","o","n","n","e","c","t","i","o","n">>)
              \/ Includes(message, <<"e","c","o","n","n","r","e","s","e","t">>)
              \/ Includes(message, <<"e","n","o","t","f","o","u","n","d">>)
      THEN "NETWORK"
      ELSE IF status.t = "number" /\ status.v >= 500 /\ status.v < 600
      THEN "TRANSIENT"
      ELSE IF status.t = "number" /\ status.v = 429 THEN "THROTTLING"
      ELSE IF status.t = "number" /\ status.v >= 400 /\ status.v < 500
      THEN "PERMANENT"
      ELSE "TRANSIENT"

\* C24: classifyError applies its rules in a fixed order and the first match
\* wins: store throttling code, validation or conditional-check code,
\* timeout (message or code), network (message), status bucket (5xx
\* transient, 4xx other than 429 permanent, 429 throttling), default
\* transient.
C24_Precedence ==
  (/\ Ended("classifyError")
   /\ call.error.t = "object"
   /\ call.error.message.t = "chars")
    => call.outcome = Returns(KindByPrecedence(call.error))

\* C25: with jitter disabled calculateDelay(attempt) is
\* min(base * multiplier^(attempt-1), maxDelay) for every attempt >= 1: it
\* never exceeds maxDelay, is not less than the delay of the attempt before,
\* and stays at maxDelay once the attempt before reached it.
C25_DelayWithoutJitter ==
  (Ended("calculateDelay") /\ ~call.config.jitterEnabled) =>
    LET delay == call.outcome.v.v
        config == call.config
        before == CalculateDelayWith(call.attempt - 1, config, 0)
    IN  /\ call.outcome.t = "return"
        /\ delay = Min(config.baseDelayMs
                         * Pow(config.backoffMultiplier, call.attempt - 1),
                       config.maxDelayMs)
        /\ delay <= config.maxDelayMs
        /\ call.attempt > 1 =>
             /\ before <= delay
             /\ before = config.maxDelayMs => delay = config.maxDelayMs

\* the default config without jitter: the delay grew from one attempt to
\* the next and reached the cap
C25_Witness ==
  /\ Ended("calculateDelay")
  /\ call.config = [RETRY_CONFIG EXCEPT !.jitterEnabled = FALSE]
  /\ call.attempt > 1
  /\ call.outcome = Returns(Num(MaxDelayMs))
  /\ CalculateDelayWith(call.attempt - 1, call.config, 0) < MaxDelayMs

(***************************************************************************)
(* Properties of engine and dispatcher together (SpecEndToEnd).            *)
(***************************************************************************)
\* the event was processed and every threshold event on the bus was
\* handled, with no failed call against the store or the bus
AllDone ==
  /\ Returned
  /\ trace.failures = {}
  /\ dispatched = Len(trace.sent)
  /\ npc = "returned" \/ trace.sent = <<>>
  /\ ntrace.failures = {}

\* C22: one budget (food, limit 200), food expenses of 200 in all after a
\* new expense of 60: processing its event gives spend 200 and 100 percent,
\* exactly one threshold event, of type exceeded, and with alerts enabled
\* exactly one notification record, with channel console and status sent.
C22_EndToEnd ==
  AllDone =>
    /\ Len(trace.seen) = 1
    /\ trace.seen[1].currentSpending = 200
    /\ Budgets[1].currentSpending = Num(200)
    /\ Budgets[1].percentageUsed = Num(100 * 100)
    /\ Len(trace.sent) = 1
    /\ trace.sent[1].thresholdType = "exceeded"
    /\ trace.sent[1].percentageUsed = 100 * 100
    /\ ~AlertsDisabled(Or(Users, DefaultProfile)) =>
         /\ Len(HistoryOf(Users)) = 1
         /\ HistoryOf(Users)[1].channel = "console"
         /\ HistoryOf(Users)[1].status = "sent"
         /\ HistoryOf(Users)[1].thresholdType = "exceeded"
         /\ Len(console) = 1

\* the scenario has run to its end for a user who has alerts enabled
C22_Witness ==
  /\ AllDone
  /\ Users # Undefined
  /\ ~AlertsDisabled(Users)
  /\ Len(HistoryOf(Users)) = 1
  /\ Len(auditBus) = 1

(***************************************************************************)
(* Properties of concurrent invocations (SpecConcurrent).                  *)
(***************************************************************************)
\* the stored item of a budget
StoredBudget(budgetId) ==
  Budgets[CHOOSE i \in 1..Len(Budgets) : Budgets[i].budgetId = budgetId]

\* every invocation has run and returned, each on a food expense event,
\* with no failed call
AllReturned ==
  \A w \in Invocations :
    /\ inflight[w].pc = "returned"
    /\ ~inflight[w].failed
    /\ inflight[w].eventDetail.category = Food

\* C28: recomputations of one budget by invocations in flight together can
\* race: each reads the spend and later writes what it read, with no lock
\* and no condition on the write, so the last writer's figure stays
\* whatever the store holds by then; there is an interleaving after which
\* the stored currentSpending is not the sum of the stored expenses
\* although every invocation has finished (C28_Witness).
C28_LastWriterWins ==
  (ev.op = "update" /\ ev.worker > 0 /\ ev.ok) =>
    StoredBudget(ev.budgetId).currentSpending
      = Num(inflight[ev.worker].currentSpending)

\* both invocations finished without a failed call, every transaction in
\* the store has had its event handled, and the stored spend of a food
\* budget is not the sum of the food expenses in the store
C28_Witness ==
  /\ DOMAIN inflight = Invocations
  /\ AllReturned
  /\ BagCardinality(Transactions) = pass
  /\ \E i \in 1..Len(Budgets) :
       /\ Matches(Budgets[i], Food)
       /\ Budgets[i].currentSpending # Num(CategorySpending(Str("u1"), Food))

(***************************************************************************)
(* Further properties of the Budget Threshold Engine (SpecEngine).         *)
(***************************************************************************)
RECURSIVE SumOf(_, _)
\* the amounts of the items in set S, each counted as often as table holds it
SumOf(S, table) ==
  IF S = {} THEN 0
  ELSE LET t == CHOOSE x \in S : TRUE
       IN  t.amount * CopiesIn(t, table) + SumOf(S \ {t}, table)

\* the sum of the expense transactions of a user and category in the store
StoredExpenses(userId, category) ==
  SumOf({t \in BagToSet(Transactions) :
           t.userId = userId /\ t.category = category /\ t.type = "expense"},
        Transactions)

\* the call in hand has returned, none of its store calls failed and the
\* store is as it was when the call began
RecomputedAlone ==
  /\ Returned
  /\ eventDetail.type # "income"
  /\ trace.failures \cap {"budgets", "spending", "update"} = {}
  /\ StoreAsQueried

\* C29: whatever an earlier call left in a budget, a later call for the
\* same user and category that runs alone and whose store calls succeed
\* leaves every budget it matched with currentSpending equal to the sum of
\* the expense transactions of that user and category in the store.
C29_SelfHealing ==
  RecomputedAlone =>
    \A i \in 1..Len(budgets) :
      StoredBudget(budgets[i].budgetId).currentSpending
        = Num(StoredExpenses(eventDetail.userId, eventDetail.category))

\* the second call found a budget whose stored spend, written by the call
\* before, was not the sum in the store, and has put it right
C29_Witness ==
  /\ RecomputedAlone
  /\ pass = MaxPasses
  /\ \E i \in 1..Len(budgets) :
       /\ budgets[i].currentSpending.t = "number"
       /\ budgets[i].currentSpending
            # Num(StoredExpenses(eventDetail.userId, eventDetail.category))
       /\ StoredBudget(budgets[i].budgetId).currentSpending
            = Num(StoredExpenses(eventDetail.userId, eventDetail.category))
       /\ StoredExpenses(eventDetail.userId, eventDetail.category) > 0

\* the emission for the i-th budget of the call in hand is over: an event
\* was built for it exactly if its percentage reached the warning threshold
EmissionOver(i) ==
  (EventsFor(trace.seen[i].budgetId) # {})
    <=> AtLeast(trace.seen[i].percentageUsed, WarningThreshold)

\* C30: within one call the steps for each matching budget run one after
\* the other in the order read spend, compute percentage, emit if the
\* threshold is reached, persist: the emission for a budget is over, done or
\* failed, before that budget is written, what is written is what was read
\* for that budget, and a budget is written before the next one is read.
C30_StepOrder ==
  LET read == Len(trace.seen)
      written == Len(trace.updates)
  IN  /\ written <= read /\ read <= written + 1 /\ read <= Len(budgets)
      /\ bpc = "spending" => read = budgetIdx - 1 /\ written = read
      /\ bpc = "emit" =>
           /\ read = budgetIdx /\ written = read - 1
           /\ EventsFor(trace.seen[read].budgetId) = {}
           /\ AtLeast(trace.seen[read].percentageUsed, WarningThreshold)
      /\ bpc = "update" =>
           /\ read = budgetIdx /\ written = read - 1
           /\ EmissionOver(read)
      /\ (bpc = "returned" /\ pass > 0) => written = read
      /\ \A i \in 1..read :
           /\ trace.seen[i].budgetId = budgets[i].budgetId
           /\ trace.seen[i].percentageUsed
                = PercentageUsed(trace.seen[i].currentSpending,
                                 budgets[i].amount)
           /\ Cardinality(EventsFor(trace.seen[i].budgetId)) <= 1
      /\ \A i \in 1..written :
           /\ EmissionOver(i)
           /\ trace.updates[i].budgetId = trace.seen[i].budgetId
           /\ trace.updates[i].values.currentSpending
                = Num(trace.seen[i].currentSpending)

\* the first budget has been written; the second has been read, its event
\* has been built, and its update is the next step
C30_Witness ==
  /\ bpc = "update"
  /\ budgetIdx = 2
  /\ Len(trace.updates) = 1
  /\ Len(trace.seen) = 2
  /\ EventsFor(trace.seen[2].budgetId) # {}
  /\ EventsFor(trace.seen[1].budgetId) = {}

(***************************************************************************)
(* Further properties of the Notification Dispatcher (SpecDispatcher).     *)
(***************************************************************************)
\* C39: a user whose item has budgetAlerts false is never sent an alert,
\* also when the read of the item fails during the call: nothing is
\* printed for that user.
C39_DisabledNeverAlerted ==
  (Users # Undefined /\ AlertsDisabled(Users)) => console = <<>>

(***************************************************************************)
(* Failed queries of the Budget Threshold Engine (SpecEngine).             *)
(***************************************************************************)
\* C36: when the transaction query of a call fails, the budget's stored
\* currentSpending and percentageUsed stay as they were, not overwritten
\* with 0, and no threshold decision is taken on a spend of 0.  Stated for
\* calls with one matching budget, whose query it then was that failed.
C36_FailedQueryLeavesBudget ==
  (/\ pass > 0
   /\ "spending" \in trace.failures
   /\ Len(budgets) = 1
   /\ Len(trace.updates) = 1)
    => /\ StoredBudget(budgets[1].budgetId).currentSpending
            = budgets[1].currentSpending
       /\ StoredBudget(budgets[1].budgetId).percentageUsed
            = budgets[1].percentageUsed

(***************************************************************************)
(* Budget matching (SpecEngine).                                           *)
(***************************************************************************)
\* the name of a budget contains s, ignoring the case of the name
NameHas(budget, s) ==
  budget.name.t = "chars" /\ Includes(ToLowerCase(budget.name.v), s)

\* budget is a candidate for an event of the category
Candidate(budget, category) ==
  \/ /\ budget.category.t = "chars"
     /\ ToLowerCase(budget.category.v) = ToLowerCase(category.v)
  \/ NameHas(budget, ToLowerCase(category.v))
  \/ NameHas(budget, <<"t","e","s","t">>)

\* the budget query of the call in hand has succeeded
BudgetsFound ==
  /\ pass > 0
  /\ eventDetail.type # "income"
  /\ bpc # "budgets"
  /\ "budgets" \notin trace.failures

IsTransactionEvent(i) ==
  /\ processor = "budgetCalculator"
  /\ records[i].detailType.t = "chars"
  /\ Includes(records[i].detailType.v,
              <<"T","r","a","n","s","a","c","t","i","o","n">>)

\* C32: an income event is ignored before userId and category are required:
\* an income event without category or userId is reported in results, is
\* not counted in errors and is not handed to the dead-letter sink.
C32_IncomeIgnoredFirst ==
  \A i \in 1..Len(records) :
    (/\ Finished(i)
     /\ IsTransactionEvent(i)
     /\ records[i].detail.type = Str("income")
     /\ invocations[i] > 0)
      => /\ InResults(i)
         /\ ~InErrors(i)
         /\ DeadLettersOf(i) = {}

\* C34: every transaction event of a user that reaches the handler, be it
\* Transaction Created, Updated or Deleted in the shape its builder gives
\* it, is passed on to the recomputation and none is rejected as a
\* validation failure.
C34_EveryMutationRecomputed ==
  \A i \in 1..Len(records) :
    (/\ Finished(i)
     /\ IsTransactionEvent(i)
     /\ Truthy(records[i].detail.userId)
     /\ records[i].detail.type # Str("income")
     /\ invocations[i] > 0)
      => /\ InResults(i)
         /\ ~InErrors(i)


(***************************************************************************)
(* The retry loop under fair scheduling: every step of a call of           *)
(* retryWithBackoff terminates, so a step that can be taken is taken.      *)
(***************************************************************************)
MaxSequences == 2

\* processEventWithRetry is handed a batch of up to MaxSequences records
RetryInit ==
  /\ Init
  /\ Len(records) <= MaxSequences

SpecRetry == RetryInit /\ [][Next]_vars /\ WF_vars(Next)

\* attempts made and waits taken for record i, given the position of the
\* loop in it
RetryAccounts(i) ==
  IF i < idx
  THEN /\ attempts[i] \in 1..(MaxRetries + 1)
       /\ waits[i] = attempts[i] - 1
  ELSE IF i > idx
  THEN attempts[i] = 0 /\ waits[i] = 0
  ELSE /\ attempts[i] <= MaxRetries + 1
       /\ pc = "attempt" =>
            attempts[i] = attempt /\ waits[i] = Max(attempt - 1, 0)
       /\ pc = "call" => attempts[i] = attempt /\ waits[i] = attempt
       /\ pc = "running" => attempts[i] = attempt + 1 /\ waits[i] = attempt

\* the wait before attempt k: the capped exponential delay, with the jitter
\* of one of the random values
IsDelayOf(delay, k) ==
  LET d == Min(BaseDelayMs * Pow(BackoffMultiplier, k - 1), MaxDelayMs)
  IN  \E q \in RandomQuarters : 8 * delay = 8 * d + d * (q - 2)

\* C31: retryWithBackoff terminates when each attempt does; the first
\* successful attempt ends the loop for its record, attempt 0 runs without a
\* wait, each later attempt k comes after exactly one wait of
\* calculateDelay(k), and no record gets more than maxRetries + 1 attempts
C31_RetryTerminates ==
  /\ [](\A i \in 1..Len(records) : RetryAccounts(i))
  /\ [](ev.op = "sleep" => pc = "call" /\ IsDelayOf(ev.delay, attempt))
  /\ [][ev'.op = "success" => idx' = idx + 1 /\ attempt' = 0]_vars
  /\ <>(pc = "done")

\* a record that succeeded at its second attempt, after one wait
C31_Witness ==
  /\ pc = "done"
  /\ \E i \in 1..Len(records) :
       /\ attempts[i] = 2
       /\ waits[i] = 1
       /\ \E r \in 1..Len(results) : results[r].recordId = RecordId(records[i])


(***************************************************************************)
(* The breaker under fair scheduling, one call at a time: time passes,     *)
(* calls keep arriving and every operation let in ends.                    *)
(***************************************************************************)
SpecBreakerRecovery ==
  /\ BreakerInit
  /\ [][SequentialNext]_vars
  /\ WF_vars(\E ms \in ElapseSteps : Elapse(ms))
  /\ WF_vars(BreakerStep(1))

\* C37: with one call at a time, calls that keep arriving and time that
\* passes, the breaker does not stay away from CLOSED with failureCount 0
\* unless operations keep failing: from every state, either a later
\* operation fails or the breaker gets to CLOSED with failureCount 0; it
\* leaves HALF_OPEN for CLOSED at the second success in a row
C37_RecoversOnceHealthy ==
  /\ []<>(ev.op = "failure" \/ (cb.state = "CLOSED" /\ cb.failureCount = 0))
  /\ [][cb.state # "CLOSED" /\ cb'.state = "CLOSED"
          => ev'.op = "success" /\ okStreak' = RequiredHalfOpenSuccesses
             /\ cb'.failureCount = 0]_vars

\* the breaker has opened, the timeout has passed with no failure since, and
\* the second success of the trial calls has closed it
C37_Witness ==
  /\ ev.op = "success"
  /\ cb.state = "CLOSED"
  /\ cb.failureCount = 0
  /\ cb.successCount = RequiredHalfOpenSuccesses
  /\ okStreak = RequiredHalfOpenSuccesses
  /\ RecoveryElapsed(cb)


(***************************************************************************)
(* One delivered record under retryWithBackoff: the processor a handler    *)
(* passes to processEventWithRetry is called again after every attempt     *)
(* that throws, over the same store and bus.  The breaker is taken to let  *)
(* every attempt in and the waits between attempts are left out: neither   *)
(* touches the store or the bus.                                           *)
(***************************************************************************)
\* a record and the handler it is delivered to
Delivery(handler, detail) == [handler |-> handler, detail |-> detail]

\* the records delivered: a Transaction Created event, one without
\* category, a Budget Threshold Reached event, one without category
DeliverySamples ==
  { Delivery("budgetCalculator", TransactionDetail(Food, "expense", 60)),
    Delivery("budgetCalculator",
             [TransactionDetail(Food, "expense", 60) EXCEPT !.category = Undefined]),
    Delivery("notificationHandler",
             ThresholdEventDetail(Str("u1"), Str("b1"), Food, 220, 200,
                                  PercentageUsed(220, 200))),
    Delivery("notificationHandler",
             [ThresholdEventDetail(Str("u1"), Str("b1"), Food, 220, 200,
                                   PercentageUsed(220, 200))
                EXCEPT !.category = Undefined]) }

\* the required-field test of the processor of each handler
MissingRequiredFields(record) ==
  IF record.handler = "budgetCalculator"
  THEN ~Truthy(record.detail.userId) \/ ~Truthy(record.detail.category)
  ELSE ~Truthy(record.detail.userId) \/ ~Truthy(record.detail.budgetId)

\* the error of the required-field test
MissingFieldsError(record) ==
  NonRetryableError(
    IF record.handler = "budgetCalculator"
    THEN <<"M","i","s","s","i","n","g"," ","r","e","q","u","i","r","e","d"," ","f","i","e","l","d","s",":"," ","u","s","e","r","I","d"," ","o","r"," ","c","a","t","e","g","o","r","y">>
    ELSE <<"M","i","s","s","i","n","g"," ","r","e","q","u","i","r","e","d"," ","f","i","e","l","d","s",":"," ","u","s","e","r","I","d"," ","o","r"," ","b","u","d","g","e","t","I","d">>,
    "PERMANENT")

\* category.charAt(0) on a Detail without category
CharAtTypeError ==
  [name |-> "TypeError",
   message |-> <<"C","a","n","n","o","t"," ","r","e","a","d"," ","p","r","o","p","e","r","t","i","e","s"," ","o","f"," ","u","n","d","e","f","i","n","e","d">>,
   code |-> Undefined, statusCode |-> Undefined, errorType |-> "unknown",
   isRetryable |-> FALSE]

\* the call of retryWithBackoff for the record, before its first attempt:
\* entered counts the handler calls begun before the attempt in hand, sent
\* keeps the threshold events earlier attempts put on the bus
NewDelivery(record) ==
  [record |-> record, attempt |-> 0, pc |-> "ready", entered |-> 0,
   sent |-> <<>>]

RedeliveryInit ==
  /\ RetryLayerAtRest
  /\ inflight = <<>>
  /\ call \in {NewDelivery(record) : record \in DeliverySamples}
  /\ Budgets \in OneFoodBudget
  /\ Transactions \in {earlier (+) SetToBag({NewExpense}) :
                         earlier \in EarlierTransactions}
  /\ eventDetail = Undefined
  /\ bpc = "idle"
  /\ pass = 0
  /\ budgets = <<>>
  /\ budgetIdx = 1
  /\ currentSpending = 0
  /\ trace = NewTrace(0)
  /\ prev = {}
  /\ Users \in UserSamples
  /\ thresholdEvent = Undefined
  /\ npc = "idle"
  /\ userProfile = Undefined
  /\ console = <<>>
  /\ auditBus = <<>>
  /\ dispatched = 0
  /\ ntrace = NewNotificationTrace(0, 0, 0)

\* handler calls begun for the record so far
Entered == pass + dispatched

\* the call after the catch block of retryWithBackoff has seen error: the
\* loop ends or goes round again
Caught(c, error) ==
  IF GivesUp(ClassifyError(error), c.attempt)
  THEN [c EXCEPT !.pc = "failed"]
  ELSE [c EXCEPT !.attempt = @ + 1, !.pc = "ready"]

\* operation(): the processor is called and makes its required-field test,
\* which throws or lets the record through to the handler's function
CallProcessor ==
  /\ call.pc = "ready"
  /\ call' = IF MissingRequiredFields(call.record)
             THEN Caught(call, MissingFieldsError(call.record))
             ELSE [call EXCEPT !.pc = "invoking", !.entered = Entered]
  /\ ev' = [op |-> "processor", attempt |-> call.attempt]
  /\ FunctionsFrame

\* the processor calls processTransactionEvent or
\* processBudgetThresholdNotification
EnterHandler ==
  /\ call.pc = "invoking"
  /\ Entered = call.entered
  /\ IF call.record.handler = "budgetCalculator"
     THEN Deliver(call.record.detail)
     ELSE Dispatch(call.record.detail)

\* createNotificationMessage throws on a Detail without category, and the
\* catch block of processBudgetThresholdNotification throws it on
CreateNotificationMessageThrows ==
  /\ npc = "send"
  /\ ~Truthy(thresholdEvent.category)
  /\ npc' = "returned"
  /\ ntrace' = [ntrace EXCEPT !.outcome = "thrown"]
  /\ ev' = [op |-> "message", call |-> dispatched]
  /\ UNCHANGED <<Users, thresholdEvent, userProfile, console, auditBus, dispatched>>
  /\ DispatcherFrame

\* the handler call in hand has ended
HandlerEnded ==
  IF call.record.handler = "budgetCalculator"
  THEN bpc = "returned" /\ trace.outcome # "pending"
  ELSE npc = "returned" /\ ntrace.outcome # "pending"

\* what the handler call in hand threw, if it threw
HandlerThrew ==
  IF call.record.handler = "budgetCalculator"
  THEN trace.outcome = "thrown"
  ELSE ntrace.outcome = "thrown"

\* the attempt ends as the handler call did: operation() resolves and
\* retryWithBackoff returns, or it rejects and the catch block decides
AttemptEnds ==
  /\ call.pc = "invoking"
  /\ Entered > call.entered
  /\ HandlerEnded
  /\ LET after == [call EXCEPT !.sent = @ \o trace.sent]
         error == IF call.record.handler = "budgetCalculator"
                  THEN ServerError ELSE CharAtTypeError
     IN  call' = IF HandlerThrew THEN Caught(after, error)
                 ELSE [after EXCEPT !.pc = "returned"]
  /\ ev' = [op |-> "attemptEnds", attempt |-> call.attempt]
  /\ FunctionsFrame

RedeliveryNext ==
  \/ CallProcessor
  \/ EnterHandler
  \/ \E ok \in BOOLEAN : GetUserBudgetsForCategory(ok)
  \/ \E ok \in BOOLEAN : CalculateCategorySpending(ok)
  \/ \E ok \in BOOLEAN : EmitBudgetThresholdEvent(ok)
  \/ \E ok \in BOOLEAN : UpdateBudgetMetrics(ok)
  \/ \E ok \in BOOLEAN : GetUserProfile(ok)
  \/ CreateNotificationMessageThrows
  \/ (npc = "send" /\ Truthy(thresholdEvent.category) /\ SendNotification)
  \/ \E ok \in BOOLEAN : StoreNotificationHistory(ok)
  \/ \E ok \in BOOLEAN : EmitNotificationSentEvent(ok)
  \/ AttemptEnds

\* one record, from its delivery to the end of its retries
SpecRedelivery == RedeliveryInit /\ [][RedeliveryNext]_vars

\* the threshold events on the bus for the record: those of earlier
\* attempts and those of the handler call in hand
ThresholdEventsSent ==
  IF call.pc = "invoking" /\ Entered > call.entered
  THEN call.sent \o trace.sent ELSE call.sent

\* how many of the events are for the budget
SentFor(events, budgetId) ==
  Cardinality({i \in 1..Len(events) : events[i].budgetId = budgetId})

\* C38: for one delivered record the retries leave at most one threshold
\* event per budget on the bus, at most one record in the user's
\* notification history and at most one Notification Sent event on the
\* bus, because a handler call that throws has put nothing there
C38_RetriesDuplicateNothing ==
  /\ \A i \in 1..Len(Budgets) :
       SentFor(ThresholdEventsSent, Budgets[i].budgetId) <= 1
  /\ Len(HistoryOf(Users)) <= 1
  /\ Len(auditBus) <= 1
  /\ trace.outcome = "thrown" => trace.sent = <<>>
  /\ ntrace.outcome = "thrown" =>
       /\ Len(HistoryOf(Users)) = ntrace.history
       /\ Len(auditBus) = ntrace.audit

\* the handler has been called a second time for the record, and nothing
\* of the first call is in the history or on the bus
C38_Witness ==
  /\ call.attempt >= 1
  /\ Entered >= 2
  /\ npc = "returned"
  /\ ntrace.outcome = "thrown"
  /\ Len(HistoryOf(Users)) = 0
  /\ auditBus = <<>>


(***************************************************************************)
(* Several batches in one process: processEventWithRetry is called again   *)
(* on the same module, so circuitBreakers.dynamodb is the one the batch    *)
(* before left behind, and time passes between the calls.                  *)
(***************************************************************************)
MaxBatches == 2

\* the batches handed in: records that succeed and records that fail with a
\* server error at every attempt
BatchSamples ==
  { b \in Batches("generic") :
      /\ Len(b) <= MaxSequences
      /\ \A i \in 1..Len(b) : b[i].script \in {<<OK>>, <<Throws(ServerError)>>} }

\* the time between the end of a batch and the start of the next
BatchGaps == {0, RecoveryTimeoutMs - 10 * BaseDelayMs}

\* the call of processEventWithRetry in hand: which it is, and whether
\* execute was refusing calls when it began
BatchCall(n, b) == [batch |-> n, startedOpen |-> Rejects(b)]

BatchesInit ==
  /\ cb = NewCircuitBreaker
  /\ ev = [op |-> "init", flip |-> 0]
  /\ processor = "generic"
  /\ records \in BatchSamples
  /\ idx = 1
  /\ pc = "attempt"
  /\ attempt = 0
  /\ lastError = NoError
  /\ results = <<>>
  /\ errors = <<>>
  /\ deadLetters = <<>>
  /\ attempts = [i \in 1..Len(records) |-> 0]
  /\ invocations = [i \in 1..Len(records) |-> 0]
  /\ waits = [i \in 1..Len(records) |-> 0]
  /\ callers = Idle
  /\ failStreak = 0
  /\ okStreak = 0
  /\ trialCalls = 0
  /\ EngineAtRest
  /\ DispatcherAtRest
  /\ call = BatchCall(1, cb)
  /\ inflight = <<>>

\* processEventWithRetry has returned and, gap milliseconds later, is
\* called with the next batch
NextBatch(batch, gap) ==
  /\ pc = "done"
  /\ call.batch < MaxBatches
  /\ cb' = Later(cb, gap)
  /\ records' = batch
  /\ idx' = 1
  /\ pc' = "attempt"
  /\ attempt' = 0
  /\ lastError' = NoError
  /\ results' = <<>>
  /\ errors' = <<>>
  /\ attempts' = [i \in 1..Len(batch) |-> 0]
  /\ invocations' = [i \in 1..Len(batch) |-> 0]
  /\ waits' = [i \in 1..Len(batch) |-> 0]
  /\ call' = BatchCall(call.batch + 1, cb')
  /\ ev' = [op |-> "batch", batch |-> call.batch + 1]
  /\ UNCHANGED <<processor, deadLetters, breakerVars, engineVars, dispatchVars,
                 inflight>>

BatchesNext ==
  \/ Next
  \/ \E batch \in BatchSamples, gap \in BatchGaps : NextBatch(batch, gap)

\* batch after batch on one breaker
SpecBatches == BatchesInit /\ [][BatchesNext]_vars

\* C35: in a batch that began while execute was refusing calls (breaker
\* OPEN, recovery timeout not passed), no record's processor is invoked
C35_OpenBatchNeverInvokes ==
  call.startedOpen => \A i \in 1..Len(records) : invocations[i] = 0

\* failures of one batch count in the next: the breaker opens in a batch
\* that has itself seen fewer failures than the threshold
FailuresCarryOver ==
  /\ call.batch > 1
  /\ ~call.startedOpen
  /\ cb.state = "OPEN"
  /\ ev.op = "throw"
  /\ idx = 1
  /\ attempts[1] < FailureThreshold

====
